---- MODULE Spec2Model ----
(***************************************************************************)
(* A model of the fawkes HTTP framework core:                              *)
(*   - the route tree (fawkes/tree.hpp, fawkes/tree.cpp),                  *)
(*   - request dispatch through router-wide and per-route middlewares      *)
(*     (fawkes/middleware.hpp, fawkes/router.hpp, server::handle_request), *)
(*   - the accept loop, the per-connection loop and server::stop()         *)
(*     (fawkes/server.hpp, fawkes/server.cpp).                             *)
(* Strings are sequences of one-character strings; offsets are 0-based as  *)
(* in the C++ code, npos is -1.                                            *)
(***************************************************************************)
EXTENDS Integers, Sequences, FiniteSets, TLC

VARIABLES
    tree,       \* the route tree of one verb (fawkes::node, the root)
    routes,     \* patterns registered successfully so far, in order; the handler of routes[i] is i
    nadds,      \* number of add_route calls made so far
    lastAdd,    \* outcome of the last add_route call
    lookup,     \* outcome of a node::locate call on the current tree
    base,       \* router-wide middlewares (router::base_middlewares_)
    impls,      \* pre_impl_ and post_impl_ of base_middlewares_: the call of set
                \* whose tuple each one refers to (0: empty), and the calls made
    route,      \* the registered route: its per-route middlewares, or absent
    req,        \* the request being dispatched
    pc,         \* position of server::handle_request
    idx,        \* position in the middleware chain that is running
    susp,       \* a coroutine (middleware or user handler) is suspended
    resp,       \* the response under construction (fwk_resp)
    log,        \* what ran for this request, in order
    sent,       \* the message handle_request returned
    opts,       \* server::opts_
    acceptor,   \* server::acceptor_: open or closed
    listener,   \* position of server::do_listen
    stop_requested, \* server::stop_source_
    conns,      \* the connections: the client's end and server::serve_session
    pool,       \* io_thread_pool::pool_: the number of reactors
    next_io_executor, \* io_thread_pool::next_io_executor_
    callers,    \* threads inside io_thread_pool::get_executor
    calls,      \* the get_executor calls in the order of their fetch_add
    accepting,  \* position of server::do_listen of a server with an I/O pool
    assigned    \* the accepted connections in order: executor of socket and session

treeVars == <<tree, routes, nadds, lastAdd, lookup>>

dispatchVars == <<impls, base, route, req, pc, idx, susp, resp, log, sent>>

connVars == <<opts, acceptor, listener, stop_requested, conns>>

poolVars == <<pool, next_io_executor, callers, calls, accepting, assigned>>

vars == <<tree, routes, nadds, lastAdd, lookup,
          impls, base, route, req, pc, idx, susp, resp, log, sent,
          opts, acceptor, listener, stop_requested, conns,
          pool, next_io_executor, callers, calls, accepting, assigned>>

----------------------------------------------------------------------------
(* Bounds *)

\* Number of add_route calls in one behaviour.
MaxAdds == 3

\* Length of the request paths that are looked up.
MaxPathLen == 4

\* Number of middlewares given to router::use.
MaxBaseMws == 3

\* Number of middlewares given to one route.
MaxRouteMws == 2

\* Number of connections clients open in one behaviour.
MaxConns == 1

\* Number of requests a client sends on one connection.
MaxRequests == 2

\* Number of reactors of an I/O pool.
MaxReactors == 3

\* Number of threads that call get_executor besides the accept loop.
MaxCallers == 2

\* Number of get_executor calls in one behaviour.
MaxCalls == 5

\* Number of middlewares given to one call of router::use that follows
\* another.
MaxUseMws == 2

\* Number of router::use calls on one router.
MaxUses == 2

----------------------------------------------------------------------------
(* Strings *)

npos == -1

None == "none"

Min(S) == CHOOSE m \in S : \A k \in S : m <= k

\* s[i] of C++, i is 0-based
At(s, i) == s[i + 1]

\* s.substr(0, n)
Take(s, n) == SubSeq(s, 1, n)

\* s.substr(n)  /  s.remove_prefix(n)
Drop(s, n) == SubSeq(s, n + 1, Len(s))

\* s.starts_with(pre)
StartsWith(s, pre) == Len(pre) <= Len(s) /\ Take(s, Len(pre)) = pre

\* s.find_first_of(set, from)
FindFirstOf(s, set, from) ==
    LET I == {i \in from..(Len(s) - 1) : At(s, i) \in set}
    IN IF I = {} THEN npos ELSE Min(I)

----------------------------------------------------------------------------
(* fawkes/tree.hpp: detail *)

unknown_wildcard == [name |-> <<>>, pos |-> npos]

found(w) == w.pos # npos

valid_name_nonempty(w) == Len(w.name) > 0

valid_name(w) == Len(w.name) > 1

find_wildcard(path) ==
    LET start == FindFirstOf(path, {":", "*"}, 0)
        stop == FindFirstOf(path, {":", "*", "/"}, start + 1)
    IN IF start = npos THEN unknown_wildcard
       ELSE IF stop = npos THEN [name |-> Drop(path, start), pos |-> start]
       ELSE IF At(path, stop) = "/"
            THEN [name |-> SubSeq(path, start + 1, stop), pos |-> start]
       ELSE [name |-> <<>>, pos |-> start]

longest_common_prefix(s1, s2) ==
    LET m == IF Len(s1) < Len(s2) THEN Len(s1) ELSE Len(s2)
        D == {i \in 0..(m - 1) : At(s1, i) # At(s2, i)}
    IN IF D = {} THEN m ELSE Min(D)

----------------------------------------------------------------------------
(* fawkes/tree.hpp: class node.  handler 0 is the empty std::function.      *)

NewNode ==
    [path |-> <<>>, indices |-> <<>>, has_wild_child |-> FALSE, type |-> "plain",
     priority |-> 0, children |-> <<>>, handler |-> 0]

\* Result of a mutating member: the node as the call left it, and the
\* exception that left the call, if any.
Ok(n) == [node |-> n, ok |-> TRUE, err |-> None]

Err(n, e) == [node |-> n, ok |-> FALSE, err |-> e]

\* Replace the i-th child (1-based) of n.
WithChild(n, i, c) == [n EXCEPT !.children[i] = c]

\* std::shift_right of the range [new_pos, pos] by one, then the moved
\* element is stored at new_pos (both 1-based here).
MoveTo(s, pos, new_pos) ==
    [i \in 1..Len(s) |->
        IF i = new_pos THEN s[pos]
        ELSE IF i > new_pos /\ i <= pos THEN s[i - 1]
        ELSE s[i]]

\* A reordering that leaves the priority of the child as it was.
increment_child_priority_keeps_priority(n, pos) ==
    LET prio == n.children[pos].priority
        bumped == n.children
        Stops == {k \in 1..pos : k = 1 \/ ~(bumped[k - 1].priority < prio)}
        new_pos == CHOOSE k \in Stops : \A j \in Stops : j <= k
    IN [node |-> [n EXCEPT !.children = MoveTo(bumped, pos, new_pos),
                           !.indices = IF new_pos # pos /\ pos <= Len(n.indices)
                                       THEN MoveTo(n.indices, pos, new_pos)
                                       ELSE n.indices],
        new_pos |-> new_pos]

\* node::increment_child_priority; pos and the result new_pos are 1-based.
increment_child_priority(n, pos) ==
    LET prio == n.children[pos].priority + 1
        bumped == [n.children EXCEPT ![pos].priority = prio]
        Stops == {k \in 1..pos : k = 1 \/ ~(bumped[k - 1].priority < prio)}
        new_pos == CHOOSE k \in Stops : \A j \in Stops : j <= k
    IN [node |-> [n EXCEPT !.children = MoveTo(bumped, pos, new_pos),
                           !.indices = IF new_pos # pos /\ pos <= Len(n.indices)
                                       THEN MoveTo(n.indices, pos, new_pos)
                                       ELSE n.indices],
        new_pos |-> new_pos]

----------------------------------------------------------------------------
(* fawkes/tree.cpp: insertion.                                             *)
(* An exception leaves every mutation made before the throw in place, so   *)
(* each operator returns the node as the call left it together with the    *)
(* error.  ub is the outcome of the build-dependent steps: "abort" is a    *)
(* build with assertions enabled (a failed assert ends the process), a     *)
(* character is a build without assertions in which the out-of-bounds read *)
(* path[npos] of insert_path yields that character.                        *)

Chars == {"/", ":", "*", "a", "b", "x"}

UBOutcomes == {"abort"} \cup Chars

\* A first catch-all node without has_wild_child_.
catch_all_head_unmarked(grand_child) ==
    [NewNode EXCEPT !.type = "catch_all",
                    !.priority = 1,
                    !.children = <<grand_child>>]

\* The first of the two nodes of a catch-all: a catch_all node with an empty
\* path and has_wild_child_ set, above the node holding the variable.
catch_all_head(grand_child) ==
    [NewNode EXCEPT !.has_wild_child = TRUE,
                    !.type = "catch_all",
                    !.priority = 1,
                    !.children = <<grand_child>>]

RECURSIVE insert_path(_, _, _, _, _)
insert_path(n, path, wildcard0, handler, ub) ==
    LET scan == ~found(wildcard0)
        wildcard == IF scan THEN find_wildcard(path) ELSE wildcard0
    IN
    IF scan /\ ~found(wildcard)
    THEN Ok([n EXCEPT !.path = path, !.handler = handler])
    ELSE IF scan /\ ~valid_name(wildcard)
    THEN Err(n, "invalid_wildcard")
    ELSE IF scan /\ n.children # <<>>
    THEN Err(n, "wildcard_conflicts_with_children")
    ELSE IF StartsWith(wildcard.name, <<":">>)
    THEN
        LET plain_segments == Take(path, wildcard.pos)
            n1 == IF plain_segments # <<>> THEN [n EXCEPT !.path = plain_segments] ELSE n
            path1 == Drop(path, Len(plain_segments))
            child == [NewNode EXCEPT !.priority = 1, !.type = "param",
                                     !.path = wildcard.name]
            n2 == [n1 EXCEPT !.has_wild_child = TRUE]
        IN IF Len(path1) = Len(wildcard.name)
           THEN Ok([n2 EXCEPT !.children = Append(@, [child EXCEPT !.handler = handler])])
           ELSE LET grand_child == [NewNode EXCEPT !.priority = 1]
                    r == insert_path(grand_child, Drop(path1, Len(wildcard.name)),
                                     unknown_wildcard, handler, ub)
                    child1 == [child EXCEPT !.children = <<r.node>>]
                IN [node |-> [n2 EXCEPT !.children = Append(@, child1)],
                    ok |-> r.ok, err |-> r.err]
    ELSE
        IF wildcard.pos + Len(wildcard.name) # Len(path)
        THEN Err(n, "catch_all_not_at_end")
        ELSE IF n.path # <<>> /\ n.path[Len(n.path)] = "/"
        THEN Err(n, "catch_all_conflicts_with_segment_root")
        ELSE IF wildcard.pos = 0
        THEN \* assert(wildcard.pos > 0) fails; without assertions --pos wraps
             \* around and path[pos] reads out of bounds
             IF ub = "abort" THEN Err(n, "assert_abort")
             ELSE IF ub # "/" THEN Err(n, "no_slash_before_catch_all")
             ELSE \* path_ = path.substr(0, npos), then path.substr(npos) throws
                  Err([n EXCEPT !.path = path], "out_of_range")
        ELSE IF At(path, wildcard.pos - 1) # "/"
        THEN Err(n, "no_slash_before_catch_all")
        ELSE
            LET pos == wildcard.pos - 1
                grand_child == [NewNode EXCEPT !.path = Drop(path, pos),
                                               !.type = "catch_all",
                                               !.priority = 1,
                                               !.handler = handler]
                child == catch_all_head(grand_child)
            IN Ok([n EXCEPT !.path = Take(path, pos),
                            !.children = Append(@, child),
                            !.indices = <<"/">>])

\* A split that leaves has_wild_child_ of the node set.
split_keeps_has_wild_child(n, len) ==
    LET child == [path |-> Drop(n.path, len),
                  indices |-> n.indices,
                  has_wild_child |-> n.has_wild_child,
                  type |-> "plain",
                  priority |-> n.priority - 1,
                  children |-> n.children,
                  handler |-> n.handler]
    IN [n EXCEPT !.children = <<child>>,
                 !.indices = <<At(n.path, len)>>,
                 !.path = Take(n.path, len),
                 !.handler = 0]

\* The split of insert_route: the node keeps the common prefix, the rest of
\* its path moves to a new child that takes over children and handler.  The
\* moved-from handler_ is empty afterwards.
split(n, len) ==
    LET child == [path |-> Drop(n.path, len),
                  indices |-> n.indices,
                  has_wild_child |-> n.has_wild_child,
                  type |-> "plain",
                  priority |-> n.priority - 1,
                  children |-> n.children,
                  handler |-> n.handler]
    IN [n EXCEPT !.children = <<child>>,
                 !.indices = <<At(n.path, len)>>,
                 !.path = Take(n.path, len),
                 !.has_wild_child = FALSE,
                 !.handler = 0]

\* Position (1-based) of the first byte of indices equal to c, 0 if none.
IndexOf(indices, c) ==
    LET I == {i \in 1..Len(indices) : indices[i] = c}
    IN IF I = {} THEN 0 ELSE Min(I)

\* The byte of the new child put in front of indices, the child at the
\* back of children.
push_child_index_in_front(n, idxc) ==
    [n EXCEPT !.indices = <<idxc>> \o @,
              !.children = Append(@, NewNode)]

\* indices_ += idxc; children_.push_back(std::make_unique<node>()).
push_child(n, idxc) ==
    [n EXCEPT !.indices = Append(@, idxc),
              !.children = Append(@, NewNode)]

RECURSIVE insert_route(_, _, _, _)
insert_route(n0, path0, handler, ub) ==
    LET len == longest_common_prefix(path0, n0.path)
        n == IF len < Len(n0.path) THEN split(n0, len) ELSE n0
        path == Drop(path0, len)
    IN
    IF len = Len(path0)
    THEN IF n.handler # 0 THEN Err(n, "duplicate_route")
         ELSE Ok([n EXCEPT !.handler = handler])
    ELSE IF n.has_wild_child
    THEN
        LET child == [n.children[1] EXCEPT !.priority = @ + 1]
        IN IF /\ StartsWith(path, child.path)
              /\ child.type # "catch_all"
              /\ (Len(child.path) = Len(path) \/ At(path, Len(child.path)) = "/")
           THEN LET r == insert_route(child, path, handler, ub)
                IN [node |-> WithChild(n, 1, r.node), ok |-> r.ok, err |-> r.err]
           ELSE Err(WithChild(n, 1, child), "wildcard_conflict")
    ELSE
        LET idxc == At(path, 0)
            i == IndexOf(n.indices, idxc)
        IN
        IF n.type = "param" /\ idxc = "/" /\ n.children # <<>>
        THEN IF Len(n.children) # 1 /\ ub = "abort"
             THEN Err(n, "assert_abort")
             ELSE LET child == [n.children[1] EXCEPT !.priority = @ + 1]
                      r == insert_route(child, path, handler, ub)
                  IN [node |-> WithChild(n, 1, r.node), ok |-> r.ok, err |-> r.err]
        ELSE IF i # 0
        THEN IF Len(n.indices) # Len(n.children) /\ ub = "abort"
             THEN Err(n, "assert_sizes")
             ELSE LET inc == increment_child_priority(n, i)
                      r == insert_route(inc.node.children[inc.new_pos], path, handler, ub)
                  IN [node |-> WithChild(inc.node, inc.new_pos, r.node),
                      ok |-> r.ok, err |-> r.err]
        ELSE IF idxc # ":" /\ idxc # "*"
        THEN LET n1 == push_child(n, idxc)
             IN IF Len(n1.indices) # Len(n1.children) /\ ub = "abort"
                THEN Err(n1, "assert_sizes")
                ELSE \* `child` is bound to the new node before the reordering;
                     \* the priority of children_[indices_.size() - 1] is raised
                     LET back == Len(n1.children)
                         pos == Len(n1.indices)
                         inc == increment_child_priority(n1, pos)
                         at == IF pos = back THEN inc.new_pos ELSE back
                         r == insert_path(inc.node.children[at], path,
                                          unknown_wildcard, handler, ub)
                     IN [node |-> WithChild(inc.node, at, r.node),
                         ok |-> r.ok, err |-> r.err]
        ELSE insert_path(n, path, unknown_wildcard, handler, ub)

\* node::add_route on the root.
add_route(root, path, handler, ub) ==
    LET n == [root EXCEPT !.priority = @ + 1]
    IN IF n.path = <<>> /\ n.indices = <<>>
       THEN LET r == insert_path(n, path, unknown_wildcard, handler, ub)
            IN IF r.ok THEN Ok([r.node EXCEPT !.type = "root"]) ELSE r
       ELSE insert_route(n, path, handler, ub)

----------------------------------------------------------------------------
(* fawkes/tree.cpp: lookup.  off is the offset of path in the string that  *)
(* was handed to the root; each capture records where its value starts.    *)

Located(h, ps) == [found |-> h # 0, handler |-> h, ps |-> ps, err |-> None]

NotLocated(ps) == [found |-> FALSE, handler |-> 0, ps |-> ps, err |-> None]

\* A capture whose key and value are exchanged.
param_capture_swapped(child, path, off) ==
    LET param_end == FindFirstOf(path, {"/"}, 0)
    IN [key |-> IF param_end = npos THEN path ELSE Take(path, param_end),
        value |-> Drop(child.path, 1),
        off |-> off]

\* ps.add(child.path_.substr(1), path.substr(0, param_end))
param_capture(child, path, off) ==
    LET param_end == FindFirstOf(path, {"/"}, 0)
    IN [key |-> Drop(child.path, 1),
        value |-> IF param_end = npos THEN path ELSE Take(path, param_end),
        off |-> off]

\* A capture that loses the '/' that introduces the catch-all.
catch_all_capture_no_slash(child, path, off) ==
    [key |-> Drop(child.path, 2), value |-> Drop(path, 1), off |-> off + 1]

\* ps.add(child.path_.substr(2), path)
catch_all_capture(child, path, off) ==
    [key |-> Drop(child.path, 2), value |-> path, off |-> off]

RECURSIVE locate(_, _, _, _)
locate(n, path0, off0, ps) ==
    IF Len(path0) = Len(n.path)
    THEN Located(n.handler, ps)
    ELSE IF Len(path0) > Len(n.path) /\ StartsWith(path0, n.path)
    THEN
        LET path == Drop(path0, Len(n.path))
            off == off0 + Len(n.path)
        IN
        IF ~n.has_wild_child
        THEN LET pos == IndexOf(n.indices, At(path, 0))
             IN IF pos = 0 THEN NotLocated(ps)
                ELSE locate(n.children[pos], path, off, ps)
        ELSE
            LET child == n.children[1]
            IN
            IF child.type = "param"
            THEN LET param_end == FindFirstOf(path, {"/"}, 0)
                     ps1 == Append(ps, param_capture(child, path, off))
                 IN IF param_end = npos THEN Located(child.handler, ps1)
                    ELSE IF child.children # <<>>
                    THEN locate(child.children[1], Drop(path, param_end),
                                off + param_end, ps1)
                    ELSE NotLocated(ps1)
            ELSE IF child.type = "catch_all"
            THEN \* returns &child.handler_, never a null pointer
                 [found |-> TRUE, handler |-> child.handler,
                  ps |-> Append(ps, catch_all_capture(child, path, off)),
                  err |-> None]
            ELSE [found |-> FALSE, handler |-> 0, ps |-> ps, err |-> "runtime_error"]
    ELSE NotLocated(ps)

----------------------------------------------------------------------------
(* Registration and lookup on one tree                                     *)

\* The patterns handed to add_route: literals that share prefixes, params,
\* catch-alls, and malformed or conflicting wildcards.
Patterns ==
    { <<"/">>,
      <<"/", "a">>,
      <<"/", "a", "b">>,
      <<"/", "b">>,
      <<"/", "a", "/">>,
      <<"/", "a", "/", "b">>,
      <<"/", ":", "x">>,
      <<"/", ":", "x", "/", "a">>,
      <<"/", ":", "x", "/", ":", "b">>,
      <<"/", ":", "x", "/", ":">>,
      <<"/", ":", "b">>,
      <<"/", ":">>,
      <<"/", "a", "/", ":", "x">>,
      <<"/", "a", "/", "*", "x">>,
      <<"/", "b", "/", ":", "x">>,
      <<"/", "*", "x">>,
      <<"/", "a", "*", "x">>,
      <<"/", "a", ":", "x">>,
      <<"/", ":", "x", ":", "b">>,
      <<"/", "*", "x", "/", "a">> }

PathChars == {"/", "a", "b"}

RECURSIVE StringsOver(_, _)
StringsOver(alphabet, n) ==
    IF n = 0 THEN {<<>>}
    ELSE LET S == StringsOver(alphabet, n - 1)
         IN S \cup {Append(s, c) : s \in {t \in S : Len(t) = n - 1}, c \in alphabet}

\* Request paths: every string over PathChars that starts with '/'.
Paths == {<<"/">> \o s : s \in StringsOver(PathChars, MaxPathLen - 1)}

\* No lookup has been made on the current tree.
NoLookup == [done |-> FALSE, res |-> <<>>, routed |-> FALSE, reqs |-> <<>>]

\* The dispatch variables while only the tree is exercised.
DispatchIdle ==
    /\ base = <<>>
    /\ impls = [gen |-> 0, pre |-> 0, post |-> 0]
    /\ route = [present |-> FALSE, mws |-> <<>>]
    /\ req = None
    /\ pc = "idle"
    /\ idx = 0
    /\ susp = FALSE
    /\ resp = None
    /\ log = <<>>
    /\ sent = None

\* The server variables while no server is listening.
ConnIdle ==
    /\ opts = [idle_timeout |-> 0, read_timeout |-> 0, serve_timeout |-> 0]
    /\ acceptor = "closed"
    /\ listener = "exited"
    /\ stop_requested = FALSE
    /\ conns = <<>>

\* The pool variables while no I/O pool is in use.
PoolIdle ==
    /\ pool = 0
    /\ next_io_executor = 0
    /\ callers = <<>>
    /\ calls = <<>>
    /\ accepting = [pc |-> "exited", executor |-> 0]
    /\ assigned = <<>>

InitTree ==
    /\ DispatchIdle
    /\ ConnIdle
    /\ PoolIdle
    /\ tree = NewNode
    /\ routes = <<>>
    /\ nadds = 0
    /\ lastAdd = [path |-> <<>>, ok |-> TRUE, err |-> None]
    /\ lookup = NoLookup

\* The process is gone after a failed assertion.
Alive == lastAdd.err \notin {"assert_abort", "assert_sizes"}

\* tree.add_route(path, handler); the handler registered by the n-th
\* successful call is n.
AddRoute(path) ==
    /\ Alive
    /\ nadds < MaxAdds
    /\ LET h == Len(routes) + 1
           build == IF add_route(tree, path, h, "abort").err \in {"assert_abort", "assert_sizes"}
                    THEN UBOutcomes ELSE {"abort"}
       IN \E ub \in build :
            LET r == add_route(tree, path, h, ub)
            IN /\ tree' = r.node
               /\ routes' = IF r.ok THEN Append(routes, path) ELSE routes
               /\ lastAdd' = [path |-> path, ok |-> r.ok, err |-> r.err]
    /\ nadds' = nadds + 1
    /\ lookup' = NoLookup
    /\ UNCHANGED dispatchVars
    /\ UNCHANGED <<connVars, poolVars>>

\* tree.locate(p, params) for every request path p, each with its own
\* empty params.
Locate ==
    /\ Alive
    /\ ~lookup.done
    /\ lookup' = [lookup EXCEPT !.done = TRUE,
                                !.res = [p \in Paths |-> locate(tree, p, 0, <<>>)]]
    /\ UNCHANGED <<tree, routes, nadds, lastAdd>>
    /\ UNCHANGED dispatchVars
    /\ UNCHANGED <<connVars, poolVars>>

\* The request targets that are dispatched: plain paths, paths with
\* percent-escapes (%61 is a, %62 is b, %2F is /) and a target with a query.
Targets ==
    { <<"/", "a">>,
      <<"/", "%", "6", "1">>,
      <<"/", "%", "6", "2">>,
      <<"/", "a", "/", "b">>,
      <<"/", "a", "/", "%", "6", "2">>,
      <<"/", "%", "6", "1", "/", "a">>,
      <<"/", "a", "%", "2", "F", "b">>,
      <<"/", "b", "?", "a">> }

HexValue(c) ==
    CASE c = "1" -> 1 [] c = "2" -> 2 [] c = "6" -> 6 [] c = "F" -> 15

ByteChar(b) ==
    CASE b = 47 -> "/" [] b = 97 -> "a" [] b = 98 -> "b"

\* Percent-decoding as url_.path() does it: %HH becomes the byte HH.
RECURSIVE pct_decode(_)
pct_decode(s) ==
    IF s = <<>> THEN <<>>
    ELSE IF At(s, 0) = "%"
    THEN <<ByteChar(16 * HexValue(At(s, 1)) + HexValue(At(s, 2)))>>
            \o pct_decode(Drop(s, 3))
    ELSE <<At(s, 0)>> \o pct_decode(Drop(s, 1))

\* request::request: path_ is the part of the target before '?',
\* percent-decoded.
request_path(target) ==
    LET pos == FindFirstOf(target, {"?"}, 0)
        path == IF pos = npos THEN target ELSE Take(target, pos)
    IN pct_decode(path)

\* handle_request up to locate_route, for every target: the request is
\* built from the target and its path is looked up with the request's own
\* params.
LocateRoute ==
    /\ Alive
    /\ ~lookup.routed
    /\ lookup' = [lookup EXCEPT
                    !.routed = TRUE,
                    !.reqs = [t \in Targets |->
                                [path |-> request_path(t),
                                 res |-> locate(tree, request_path(t), 0, <<>>)]]]
    /\ UNCHANGED <<tree, routes, nadds, lastAdd>>
    /\ UNCHANGED dispatchVars
    /\ UNCHANGED <<connVars, poolVars>>

NextTree ==
    \/ \E path \in Patterns : AddRoute(path)
    \/ Locate
    \/ LocateRoute

SpecTree == InitTree /\ [][NextTree]_vars

----------------------------------------------------------------------------
(* What it means for a path to match a pattern                             *)

NoMatch == [ok |-> FALSE, caps |-> <<>>]

\* Length of the first segment of s: up to the next '/' or the end.
SegLen(s) ==
    LET e == FindFirstOf(s, {"/"}, 0)
    IN IF e = npos THEN Len(s) ELSE e

\* Match path p against pattern pat: literal bytes are equal byte for
\* byte, :name takes one '/'-free segment, a final /*name takes the rest
\* of the path from its '/'.  A :name that ends the pattern takes at least
\* lastMin bytes.  The result holds the captures in pattern order.
RECURSIVE Match(_, _, _, _)
Match(pat, p, lastMin, caps) ==
    IF pat = <<>>
    THEN IF p = <<>> THEN [ok |-> TRUE, caps |-> caps] ELSE NoMatch
    ELSE IF pat[1] = ":"
    THEN LET pn == SegLen(pat)
             vn == SegLen(p)
             last == pn = Len(pat)
         IN IF last /\ vn < lastMin THEN NoMatch
            ELSE Match(Drop(pat, pn), Drop(p, vn), lastMin,
                       Append(caps, <<SubSeq(pat, 2, pn), Take(p, vn)>>))
    ELSE IF Len(pat) >= 2 /\ pat[1] = "/" /\ pat[2] = "*"
    THEN IF p # <<>> /\ p[1] = "/"
         THEN [ok |-> TRUE, caps |-> Append(caps, <<Drop(pat, 2), p>>)]
         ELSE NoMatch
    ELSE IF p # <<>> /\ p[1] = pat[1]
    THEN Match(Drop(pat, 1), Drop(p, 1), lastMin, caps)
    ELSE NoMatch

\* The captures of a lookup as (name, value) pairs.
Captured(res) == [i \in 1..Len(res.ps) |-> <<res.ps[i].key, res.ps[i].value>>]

Registered == 1..Len(routes)

\* Every add_route call made so far returned without an exception.
AllAddsSucceeded == nadds = Len(routes)

----------------------------------------------------------------------------
(* C1: no false matches.  After any sequence of add_route calls, a path    *)
(* that no registered pattern matches (literal bytes equal byte for byte,  *)
(* :name one '/'-free segment, a final *name the rest of the path) gets no *)
(* handler from locate; in particular a path as long as a node's edge      *)
(* label but with different bytes is not matched.                          *)
C1_NoFalseMatch ==
    lookup.done =>
        \A p \in Paths :
            (\A i \in Registered : ~Match(routes[i], p, 0, <<>>).ok)
                => ~lookup.res[p].found

----------------------------------------------------------------------------
(* C2 as stated: in a tree built by successful add_route calls, every path *)
(* that matches a registered pattern P, each                               *)
(* :name taking a segment of zero or more bytes, is located with P's       *)
(* handler and P's captures.                                               *)
C2_LookupExact_AsStated ==
    (lookup.done /\ AllAddsSucceeded) =>
        \A i \in Registered : \A p \in Paths :
            LET m == Match(routes[i], p, 0, <<>>)
            IN m.ok => /\ lookup.res[p].handler = i
                       /\ Captured(lookup.res[p]) = m.caps

(* C2, amended: in a tree built by successful add_route calls, every path  *)
(* that matches a registered pattern P, where a                            *)
(* :name takes a segment of zero or more bytes but a :name that ends the   *)
(* pattern takes at least one byte, is located with P's handler, and the   *)
(* captures are exactly P's wildcard names in pattern order with the       *)
(* matched text; a catch-all value begins with '/'.                        *)
C2_LookupExact ==
    (lookup.done /\ AllAddsSucceeded) =>
        \A i \in Registered : \A p \in Paths :
            LET m == Match(routes[i], p, 1, <<>>)
                r == lookup.res[p]
            IN m.ok => /\ r.found
                       /\ r.handler = i
                       /\ Captured(r) = m.caps
                       /\ \A k \in 1..Len(r.ps) :
                            (\E j \in 1..Len(routes[i]) :
                                 /\ routes[i][j] = "*"
                                 /\ Drop(routes[i], j) = r.ps[k].key
                                 /\ k = Len(r.ps))
                              => r.ps[k].value # <<>> /\ r.ps[k].value[1] = "/"

\* A lookup on a tree with a parameter route and a catch-all route returned
\* the handler of each: one with a parameter value, one with a catch-all
\* value of several bytes.
C2_Witness ==
    /\ lookup.done
    /\ AllAddsSucceeded
    /\ \E i \in Registered : \E p \in Paths :
         LET m == Match(routes[i], p, 1, <<>>)
         IN /\ m.ok /\ Len(m.caps) = 1
            /\ \E j \in 1..Len(routes[i]) : routes[i][j] = ":"
            /\ lookup.res[p].handler = i
            /\ Captured(lookup.res[p]) = m.caps
    /\ \E i \in Registered : \E p \in Paths :
         LET m == Match(routes[i], p, 1, <<>>)
         IN /\ m.ok /\ Len(m.caps) = 1 /\ Len(m.caps[1][2]) >= 2
            /\ \E j \in 1..Len(routes[i]) : routes[i][j] = "*"
            /\ lookup.res[p].handler = i
            /\ Captured(lookup.res[p]) = m.caps

----------------------------------------------------------------------------
(* fawkes/middleware.hpp, fawkes/router.hpp, server::handle_request:       *)
(* dispatch of one request.                                                *)
(*                                                                         *)
(* A middleware is described by the phases it defines and by whether they  *)
(* are coroutines.  What a middleware call does is user code: it returns   *)
(* proceed or abort, or throws, and an aborting call may first set the     *)
(* response status to 401.  The user handler sets a 200 text response,     *)
(* throws an http_error carrying 403, or throws another std::exception.    *)
(* Route lookup is reduced to whether the request hits the route.          *)

MwKinds ==
    { [pre |-> TRUE,  post |-> TRUE,  coro |-> FALSE],
      [pre |-> TRUE,  post |-> TRUE,  coro |-> TRUE],
      [pre |-> TRUE,  post |-> FALSE, coro |-> FALSE],
      [pre |-> FALSE, post |-> TRUE,  coro |-> FALSE] }

\* The tuples of at most n middlewares.
Chains(n) == UNION {[1..k -> MwKinds] : k \in 0..n}

MwOutcomes ==
    { [ret |-> "proceed", set401 |-> FALSE],
      [ret |-> "abort",   set401 |-> FALSE],
      [ret |-> "abort",   set401 |-> TRUE],
      [ret |-> "throw",   set401 |-> FALSE] }

HandlerOutcomes == {"ok", "http_error", "exception"}

ChainPcs == {"router_pre", "route_pre", "route_post", "router_post"}

\* The tuple a chain position runs: base_middlewares_ or the route's mws.
ChainOf(at) == IF at \in {"router_pre", "router_post"} THEN base ELSE route.mws

ChainName(at) == IF at \in {"router_pre", "router_post"} THEN "router" ELSE "route"

PhaseOf(at) == IF at \in {"router_pre", "route_pre"} THEN "pre" ELSE "post"

\* has_pre_handle || has_coro_pre_handle, has_post_handle || has_coro_post_handle
Defines(m, phase) == IF phase = "pre" THEN m.pre ELSE m.post

\* apply_middlewares_impl<IsForward>: std::get<I> or std::get<N - I - 1>,
\* for I = 0, 1, ...; FirstIdx is the element for I = 0, NextIdx the next.
FirstIdx(n, phase) == IF phase = "pre" THEN 1 ELSE n

\* A fold that walks the tuple forward in both phases.
NextIdx_always_forward(i, phase) == i + 1

NextIdx(i, phase) == IF phase = "pre" THEN i + 1 ELSE i - 1

\* A fold that does not short-circuit: every middleware runs.
StopsChain_never(ret) == FALSE

\* The fold (... == proceed) && ... stops at the first result that is not
\* proceed.
StopsChain(ret) == ret # "proceed"

\* response(version, keep_alive)
NewResponse(keep_alive) == [status |-> "ok", body |-> "", keep_alive |-> keep_alive]

\* resp.json(status, body) / resp.text(status, body)
SetBody(r, status, body) == [r EXCEPT !.status = status, !.body = body]

\* An error response that always closes the connection.
UnexpectedErrorResponse_closes(keep_alive) ==
    [status |-> "internal_server_error", body |-> "what_json", keep_alive |-> FALSE]

\* make_unexpected_error_response
UnexpectedErrorResponse(keep_alive) ==
    [status |-> "internal_server_error", body |-> "what_json", keep_alive |-> keep_alive]

\* A dispatch that ignores the result of the router-wide pre_handle chain.
after_router_pre_ignores_abort(r, handler) ==
    IF ~handler THEN "not_found" ELSE "route_pre"

\* server::handle_request after co_await router_.run_pre_handle
after_router_pre(r, handler) ==
    IF r = "abort" THEN "done"
    ELSE IF ~handler THEN "not_found"
    ELSE "route_pre"

\* A dispatch that still runs the router-wide post_handle chain after a
\* per-route pre_handle abort.
after_route_pre_abort_runs_router_post(r) ==
    IF r = "abort" THEN "router_post" ELSE "handler"

\* the route handler after run_middlewares_pre_handle; an abort is the
\* result of the route handler and handle_request returns on it
after_route_pre(r) == IF r = "abort" THEN "done" ELSE "handler"

\* A route handler that returns right after the user handler.
after_handler_skips_route_post == "router_post"

\* the route handler after the try block around user_handler
after_handler == "route_post"

\* A dispatch that ignores the result of the route handler.
after_route_post_ignores_abort(r) == "router_post"

\* server::handle_request after co_await (*handler)(fwk_req, fwk_resp)
after_route_post(r) == IF r = "abort" THEN "done" ELSE "router_post"

\* server::handle_request after co_await router_.run_post_handle: the
\* result is ignored
after_router_post(r) == "done"

\* A dispatch that returns the 404 without the router-wide post_handle chain.
after_not_found_returns == "done"

\* server::handle_request after the 404 has been set
after_not_found == "router_post"

After(at, r) ==
    CASE at = "router_pre" -> after_router_pre(r, req.found)
      [] at = "route_pre" -> after_route_pre(r)
      [] at = "route_post" -> after_route_post(r)
      [] at = "router_post" -> after_router_post(r)

Event(k, chain, phase, i, seen, ret) ==
    [k |-> k, chain |-> chain, phase |-> phase, i |-> i, seen |-> seen, ret |-> ret]

\* Continue handle_request at position to, with the response r and the
\* log l; reaching "done" is co_return prepare_response(fwk_resp).
GoTo(to, r, l) ==
    /\ pc' = to
    /\ idx' = IF to \in ChainPcs THEN FirstIdx(Len(ChainOf(to)), PhaseOf(to)) ELSE 0
    /\ resp' = r
    /\ susp' = FALSE
    /\ IF to = "done"
       THEN /\ sent' = r
            /\ log' = Append(l, Event("prepare", "-", "-", 0, r, "-"))
       ELSE /\ sent' = sent
            /\ log' = l

\* The call of one middleware has finished with outcome out.
Finish(out) ==
    LET at == pc
        r == IF out.set401 THEN [resp EXCEPT !.status = "unauthorized"] ELSE resp
        ev == Event("mw", ChainName(at), PhaseOf(at), idx, resp, out.ret)
        l == Append(log, ev)
    IN IF out.ret = "throw"
       THEN \* caught by catch (const std::exception&) of handle_request
            /\ pc' = "done"
            /\ idx' = 0
            /\ susp' = FALSE
            /\ resp' = r
            /\ log' = l
            /\ sent' = UnexpectedErrorResponse(req.keep_alive)
       ELSE IF StopsChain(out.ret)
       THEN GoTo(After(at, "abort"), r,
                 Append(l, Event("chain_done", ChainName(at), PhaseOf(at), 0, r, "abort")))
       ELSE /\ idx' = NextIdx(idx, PhaseOf(at))
            /\ resp' = r
            /\ log' = l
            /\ susp' = FALSE
            /\ UNCHANGED <<pc, sent>>

\* A default-constructed middleware_chain: both functions are empty.
NoImpls == [gen |-> 0, pre |-> 0, post |-> 0]

HasPhase(mws, phase) == \E i \in 1..Len(mws) : Defines(mws[i], phase)

\* middleware_chain::set: the tuple replaces the one held before, which is
\* destroyed; pre_impl_ is assigned only if a middleware of the new tuple
\* defines pre_handle, post_impl_ only if one defines post_handle.
set(chain, mws) ==
    [gen |-> chain.gen + 1,
     pre |-> IF HasPhase(mws, "pre") THEN chain.gen + 1 ELSE chain.pre,
     post |-> IF HasPhase(mws, "post") THEN chain.gen + 1 ELSE chain.post]

\* The function a router-wide chain position calls refers to the tuple of
\* an earlier call of set, which has been destroyed.
Stale(at) ==
    /\ at \in {"router_pre", "router_post"}
    /\ LET g == IF PhaseOf(at) = "pre" THEN impls.pre ELSE impls.post
       IN g # 0 /\ g # impls.gen

InChain == pc \in ChainPcs /\ ~Stale(pc) /\ idx \in 1..Len(ChainOf(pc))

\* handle_request up to the first middleware: the response is created and
\* the route is located.
Begin(hit, keep_alive) ==
    /\ pc = "idle"
    /\ req' = [found |-> hit /\ route.present, keep_alive |-> keep_alive, valid |-> TRUE]
    /\ pc' = "router_pre"
    /\ idx' = FirstIdx(Len(base), "pre")
    /\ resp' = NewResponse(keep_alive)
    /\ UNCHANGED <<impls, base, route, susp, log, sent>>
    /\ UNCHANGED treeVars
    /\ UNCHANGED <<connVars, poolVars>>

\* handle_request for a request whose target has an invalid path part:
\* request::request throws http_error(bad_request) inside the try block,
\* before the response is created, and catch (const std::exception&)
\* answers.
BeginInvalid(keep_alive) ==
    /\ pc = "idle"
    /\ req' = [found |-> FALSE, keep_alive |-> keep_alive, valid |-> FALSE]
    /\ pc' = "done"
    /\ log' = Append(log, Event("request", "-", "-", 0,
                                [status |-> "none", body |-> "", keep_alive |-> keep_alive],
                                "bad_request"))
    /\ sent' = UnexpectedErrorResponse(keep_alive)
    /\ UNCHANGED <<impls, base, route, idx, susp, resp>>
    /\ UNCHANGED treeVars
    /\ UNCHANGED <<connVars, poolVars>>

\* A skipped middleware that ends the walk over the tuple.
MwSkip_ends_chain ==
    /\ InChain
    /\ ~Defines(ChainOf(pc)[idx], PhaseOf(pc))
    /\ idx' = 0
    /\ UNCHANGED <<impls, base, route, req, pc, susp, resp, log, sent>>
    /\ UNCHANGED treeVars
    /\ UNCHANGED <<connVars, poolVars>>

\* A middleware that does not define the phase: co_return proceed.
MwSkip ==
    /\ InChain
    /\ ~Defines(ChainOf(pc)[idx], PhaseOf(pc))
    /\ idx' = NextIdx(idx, PhaseOf(pc))
    /\ UNCHANGED <<impls, base, route, req, pc, susp, resp, log, sent>>
    /\ UNCHANGED treeVars
    /\ UNCHANGED <<connVars, poolVars>>

\* A synchronous pre_handle / post_handle.
MwCall(out) ==
    /\ InChain
    /\ Defines(ChainOf(pc)[idx], PhaseOf(pc))
    /\ ~ChainOf(pc)[idx].coro
    /\ Finish(out)
    /\ UNCHANGED <<impls, base, route, req>>
    /\ UNCHANGED treeVars
    /\ UNCHANGED <<connVars, poolVars>>

\* A coroutine pre_handle / post_handle is started and suspends.
MwSuspend ==
    /\ InChain
    /\ Defines(ChainOf(pc)[idx], PhaseOf(pc))
    /\ ChainOf(pc)[idx].coro
    /\ ~susp
    /\ susp' = TRUE
    /\ UNCHANGED <<impls, base, route, req, pc, idx, resp, log, sent>>
    /\ UNCHANGED treeVars
    /\ UNCHANGED <<connVars, poolVars>>

\* The suspended middleware coroutine completes.
MwResume(out) ==
    /\ InChain
    /\ susp
    /\ Finish(out)
    /\ UNCHANGED <<impls, base, route, req>>
    /\ UNCHANGED treeVars
    /\ UNCHANGED <<connVars, poolVars>>

\* Every middleware of the chain returned proceed (or none defines the
\* phase, or the chain is empty).
ChainEnd ==
    /\ pc \in ChainPcs
    /\ ~Stale(pc)
    /\ idx \notin 1..Len(ChainOf(pc))
    /\ GoTo(After(pc, "proceed"), resp,
            Append(log, Event("chain_done", ChainName(pc), PhaseOf(pc), 0, resp, "proceed")))
    /\ UNCHANGED <<impls, base, route, req>>
    /\ UNCHANGED treeVars
    /\ UNCHANGED <<connVars, poolVars>>

\* No handler: the 404 JSON body is set.
NotFound ==
    /\ pc = "not_found"
    /\ LET r == SetBody(resp, "not_found", "unknown_resource_json")
       IN GoTo(after_not_found, r, Append(log, Event("not_found", "-", "-", 0, resp, "-")))
    /\ UNCHANGED <<impls, base, route, req>>
    /\ UNCHANGED treeVars
    /\ UNCHANGED <<connVars, poolVars>>

\* co_await user_handler(req, resp): the handler coroutine starts.
HandlerStart ==
    /\ pc = "handler"
    /\ ~susp
    /\ susp' = TRUE
    /\ UNCHANGED <<impls, base, route, req, pc, idx, resp, log, sent>>
    /\ UNCHANGED treeVars
    /\ UNCHANGED <<connVars, poolVars>>

\* A route handler whose try block catches http_error only.
catches_http_error_only(out) == out = "http_error"

\* catch (const http_error&) and catch (const std::exception&) around
\* co_await user_handler
catches(out) == out \in {"http_error", "exception"}

\* The user handler returns or throws; a throw that the route handler
\* catches is turned into the response, another one reaches the catch of
\* handle_request.
HandlerFinish(out) ==
    /\ pc = "handler"
    /\ susp
    /\ LET r == CASE out = "ok" -> SetBody(resp, "ok", "text")
                  [] out = "http_error" -> SetBody(resp, "forbidden", "error_json")
                  [] out = "exception" ->
                         SetBody(resp, "internal_server_error", "error_json")
           l == Append(log, Event("handler", "-", "-", 0, resp, out))
       IN IF out = "ok" \/ catches(out)
          THEN GoTo(after_handler, r, l)
          ELSE /\ pc' = "done"
               /\ idx' = 0
               /\ susp' = FALSE
               /\ resp' = resp
               /\ log' = l
               /\ sent' = UnexpectedErrorResponse(req.keep_alive)
    /\ UNCHANGED <<impls, base, route, req>>
    /\ UNCHANGED treeVars
    /\ UNCHANGED <<connVars, poolVars>>

TreeIdle ==
    /\ tree = NewNode
    /\ routes = <<>>
    /\ nadds = 0
    /\ lastAdd = [path |-> <<>>, ok |-> TRUE, err |-> None]
    /\ lookup = NoLookup

\* The server after router.use and the registration of at most one route.
InitDispatch ==
    /\ TreeIdle
    /\ ConnIdle
    /\ PoolIdle
    /\ base \in Chains(MaxBaseMws)
    /\ impls = IF base = <<>> THEN NoImpls ELSE set(NoImpls, base)
    /\ route \in {[present |-> FALSE, mws |-> <<>>]}
                 \cup {[present |-> TRUE, mws |-> c] : c \in Chains(MaxRouteMws)}
    /\ req = None
    /\ pc = "idle"
    /\ idx = 0
    /\ susp = FALSE
    /\ resp = None
    /\ log = <<>>
    /\ sent = None

NextDispatch ==
    \/ \E hit \in BOOLEAN, keep_alive \in BOOLEAN : Begin(hit, keep_alive)
    \/ \E keep_alive \in BOOLEAN : BeginInvalid(keep_alive)
    \/ MwSkip
    \/ \E out \in MwOutcomes : MwCall(out)
    \/ MwSuspend
    \/ \E out \in MwOutcomes : MwResume(out)
    \/ ChainEnd
    \/ NotFound
    \/ HandlerStart
    \/ \E out \in HandlerOutcomes : HandlerFinish(out)

SpecDispatch == InitDispatch /\ [][NextDispatch]_vars

\* The tuples handed to router::use: it takes at least one middleware.
UseChains == Chains(MaxUseMws) \ {<<>>}

\* router.use(mws...) while no request is being handled.
Use(mws) ==
    /\ pc = "idle"
    /\ impls.gen < MaxUses
    /\ base' = mws
    /\ impls' = set(impls, mws)
    /\ UNCHANGED <<route, req, pc, idx, susp, resp, log, sent>>
    /\ UNCHANGED treeVars
    /\ UNCHANGED <<connVars, poolVars>>

\* What a call through a reference to a destroyed tuple can do: the code of
\* the earlier middlewares runs on whatever the storage holds now and
\* returns or throws, or the process dies.
StaleOutcomes == {"proceed", "abort", "throw", "crash"}

\* pre_handle / post_handle of the router-wide chain calls a function that
\* refers to the tuple of an earlier call of set.
StaleCall(out) ==
    /\ pc \in ChainPcs
    /\ Stale(pc)
    /\ LET l == Append(log, Event("stale", ChainName(pc), PhaseOf(pc), 0, resp, out))
       IN CASE out = "crash" ->
                 /\ pc' = "crashed"
                 /\ log' = l
                 /\ UNCHANGED <<idx, susp, resp, sent>>
            [] out = "throw" ->
                 /\ pc' = "done"
                 /\ idx' = 0
                 /\ susp' = FALSE
                 /\ resp' = resp
                 /\ log' = l
                 /\ sent' = UnexpectedErrorResponse(req.keep_alive)
            [] OTHER ->
                 GoTo(After(pc, out), resp,
                      Append(l, Event("chain_done", ChainName(pc), PhaseOf(pc), 0, resp, out)))
    /\ UNCHANGED <<impls, base, route, req>>
    /\ UNCHANGED treeVars
    /\ UNCHANGED <<connVars, poolVars>>

\* A router on which use has not been called yet, with at most one route
\* that has no middlewares of its own.
InitUse ==
    /\ TreeIdle
    /\ ConnIdle
    /\ PoolIdle
    /\ base = <<>>
    /\ impls = NoImpls
    /\ route \in {[present |-> FALSE, mws |-> <<>>], [present |-> TRUE, mws |-> <<>>]}
    /\ req = None
    /\ pc = "idle"
    /\ idx = 0
    /\ susp = FALSE
    /\ resp = None
    /\ log = <<>>
    /\ sent = None

NextUse ==
    \/ \E mws \in UseChains : Use(mws)
    \/ \E out \in StaleOutcomes : StaleCall(out)
    \/ NextDispatch

SpecUse == InitUse /\ [][NextUse]_vars

----------------------------------------------------------------------------
(* fawkes/server.hpp, fawkes/server.cpp: the accept loop, the connection   *)
(* loop and server::stop().                                                *)
(*                                                                         *)
(* A connection has the client's end (what the client has sent, whether it *)
(* has closed) and the server's end (the position of serve_session and the *)
(* deadline of its beast::tcp_stream).  A request is sent as a whole; its  *)
(* keep-alive flag, its Expect field and whether it has a body are seen    *)
(* when it is parsed.  Dispatch of the request is one step here, the time  *)
(* the handler takes is the time before that step.  A connection knows how *)
(* many requests have arrived on its socket and are unread (net) and how   *)
(* many its flat_buffer holds (buf).  A connection counts                  *)
(* the headers it has parsed (nparsed), the interim responses it has       *)
(* written for the request at hand (interim) and the final responses it    *)
(* has written (nresp), and knows whether the request at hand carries      *)
(* Expect: 100-continue in whatever case (expects).                        *)

\* The timeouts a server is configured with, in milliseconds.
Options ==
    [idle_timeout : {0, 1}, read_timeout : {-1, 0, 1, 3}, serve_timeout : {-2, 0, 2}]

Max(S) == CHOOSE m \in S : \A k \in S : k <= m

\* An effective read timeout that leaves serve_timeout out.
effective_read_timeout_without_serve(o) ==
    IF o.read_timeout > 0 THEN o.read_timeout ELSE 0

\* options::effective_read_timeout
effective_read_timeout(o) ==
    LET min == Min({o.read_timeout, o.serve_timeout})
        max == Max({o.read_timeout, o.serve_timeout})
    IN IF max <= 0 THEN 0
       ELSE IF min > 0 THEN min ELSE max

Conns == 1..MaxConns

\* The values of the Expect field of a request; "" is a request without
\* the field.
ExpectValues == {"", "100-continue", "100-Continue"}

\* Lower case of an Expect value.
ToLower(v) == IF v = "100-Continue" THEN "100-continue" ELSE v

\* A comparison that tells upper case from lower case.
iequals_exact(a, b) == a = b

\* beast::iequals
iequals(a, b) == ToLower(a) = ToLower(b)

\* A connection no client has opened yet.
NoConn ==
    [st |-> "none", read_timeout |-> 0, timer |-> "never", expired |-> FALSE,
     net |-> 0, buf |-> 0, nsent |-> 0, keep_alive |-> FALSE, peer_open |-> FALSE,
     expects |-> FALSE, interim |-> 0, nparsed |-> 0, nresp |-> 0,
     wrote |-> "none", end |-> "none"]

\* stream.expires_after: the deadline of the stream is replaced.
expires_after(k, which) == [k EXCEPT !.timer = which, !.expired = FALSE]

\* The top of the loop of serve_session, up to the pending async_read_some:
\* the deadline is replaced only if idle_timeout is positive.
loop_top(k) ==
    LET k1 == IF opts.idle_timeout > 0 THEN expires_after(k, "idle") ELSE k
    IN [k1 EXCEPT !.st = "idle", !.wrote = "none", !.expects = FALSE, !.interim = 0]

\* The request has been read: the serve deadline is set if serve_timeout is
\* positive, and handle_request is awaited with the message released by the
\* parser, whose bytes have been consumed from buf.
start_handling(k) ==
    LET k1 == IF opts.serve_timeout > 0 THEN expires_after(k, "serve") ELSE k
    IN [k1 EXCEPT !.st = "handling", !.buf = @ - 1]

\* The session is over and the stream is destroyed, with what it held; what
\* the client got for the last request it sent stays.
close(k, how) == [NoConn EXCEPT !.st = "closed", !.end = how, !.wrote = k.wrote]

\* acceptor_.async_accept: on a closed acceptor it fails at once with
\* bad_descriptor.
async_accept == IF acceptor = "open" THEN "pending" ELSE "queued_error"

Live(c) == conns[c].st \notin {"none", "accepted", "closed"}

\* A client connects: the pending accept completes with the socket.
ClientConnect(c) ==
    /\ acceptor = "open"
    /\ listener = "pending"
    /\ conns[c].st = "none"
    /\ \A d \in 1..(c - 1) : conns[d].st # "none"
    /\ conns' = [conns EXCEPT ![c].st = "accepted", ![c].peer_open = TRUE]
    /\ listener' = "queued_ok"
    /\ UNCHANGED <<opts, acceptor, stop_requested>>
    /\ UNCHANGED <<treeVars, dispatchVars, poolVars>>

\* The pending accept fails for a reason other than the acceptor being
\* closed.
AcceptError ==
    /\ acceptor = "open"
    /\ listener = "pending"
    /\ listener' = "queued_error"
    /\ UNCHANGED <<opts, acceptor, stop_requested, conns>>
    /\ UNCHANGED <<treeVars, dispatchVars, poolVars>>

\* do_listen resumes with a socket: the session is spawned and runs up to
\* its first read, its read_timeout being the effective read timeout; the
\* loop starts the next accept.
ListenSpawn(c) ==
    /\ listener = "queued_ok"
    /\ conns[c].st = "accepted"
    /\ conns' = [conns EXCEPT ![c] =
                    loop_top([conns[c] EXCEPT
                                 !.read_timeout = effective_read_timeout(opts)])]
    /\ listener' = async_accept
    /\ UNCHANGED <<opts, acceptor, stop_requested>>
    /\ UNCHANGED <<treeVars, dispatchVars, poolVars>>

\* do_listen resumes with a socket whose peer is gone: sock.remote_endpoint()
\* throws and the exception leaves do_listen.
ListenThrow(c) ==
    /\ listener = "queued_ok"
    /\ conns[c].st = "accepted"
    /\ ~conns[c].peer_open
    /\ conns' = [conns EXCEPT ![c] = close(conns[c], "error")]
    /\ listener' = "exited"
    /\ UNCHANGED <<opts, acceptor, stop_requested>>
    /\ UNCHANGED <<treeVars, dispatchVars, poolVars>>

\* do_listen resumes with operation_aborted: co_return.
ListenAborted ==
    /\ listener = "queued_aborted"
    /\ listener' = "exited"
    /\ UNCHANGED <<opts, acceptor, stop_requested, conns>>
    /\ UNCHANGED <<treeVars, dispatchVars, poolVars>>

\* do_listen resumes with another error: it is logged and the loop continues.
ListenRetry ==
    /\ listener = "queued_error"
    /\ listener' = async_accept
    /\ UNCHANGED <<opts, acceptor, stop_requested, conns>>
    /\ UNCHANGED <<treeVars, dispatchVars, poolVars>>

\* server::stop(): the acceptor is closed, which cancels a pending accept,
\* and stop is requested on stop_source_.
Stop ==
    /\ ~stop_requested
    /\ acceptor' = "closed"
    /\ stop_requested' = TRUE
    /\ listener' = IF listener = "pending" THEN "queued_aborted" ELSE listener
    /\ UNCHANGED <<opts, conns>>
    /\ UNCHANGED <<treeVars, dispatchVars, poolVars>>

\* The client sends one request.
ClientSend(c) ==
    /\ conns[c].st \notin {"none", "closed"}
    /\ conns[c].peer_open
    /\ conns[c].nsent < MaxRequests
    /\ conns' = [conns EXCEPT ![c].net = @ + 1, ![c].nsent = @ + 1]
    /\ UNCHANGED <<opts, acceptor, listener, stop_requested>>
    /\ UNCHANGED <<treeVars, dispatchVars, poolVars>>

\* The client closes its end.
ClientClose(c) ==
    /\ conns[c].st \notin {"none", "closed"}
    /\ conns[c].peer_open
    /\ conns' = [conns EXCEPT ![c].peer_open = FALSE]
    /\ UNCHANGED <<opts, acceptor, listener, stop_requested>>
    /\ UNCHANGED <<treeVars, dispatchVars, poolVars>>

\* A session that starts to read the next request while the response to
\* the last one is still being written.
FirstByte_while_writing(c, n) ==
    /\ conns[c].st \in {"idle", "writing"}
    /\ n \in 1..conns[c].net
    /\ LET k == IF conns[c].read_timeout > 0
                THEN expires_after(conns[c], "read") ELSE conns[c]
       IN conns' = [conns EXCEPT ![c] =
                       [k EXCEPT !.st = "reading", !.net = @ - n, !.buf = @ + n]]
    /\ UNCHANGED <<opts, acceptor, listener, stop_requested>>
    /\ UNCHANGED <<treeVars, dispatchVars, poolVars>>

\* async_read_some completes with bytes that have arrived on the socket:
\* the n requests they hold are committed to buf, after whatever buf held
\* already; the read deadline is set if the effective read timeout is
\* positive.  The read is on the socket: what buf holds does not complete it.
FirstByte(c, n) ==
    /\ conns[c].st = "idle"
    /\ n \in 1..conns[c].net
    /\ LET k == IF conns[c].read_timeout > 0
                THEN expires_after(conns[c], "read") ELSE conns[c]
       IN conns' = [conns EXCEPT ![c] =
                       [k EXCEPT !.st = "reading", !.net = @ - n, !.buf = @ + n]]
    /\ UNCHANGED <<opts, acceptor, listener, stop_requested>>
    /\ UNCHANGED <<treeVars, dispatchVars, poolVars>>

\* http::async_read_header completes: the parser holds the header.  A
\* request that expects 100-continue gets the interim response written
\* next; otherwise the body is read if there is one.
HeaderDone(c, keep_alive, expect, has_body) ==
    /\ conns[c].st = "reading"
    /\ LET k == [conns[c] EXCEPT !.keep_alive = keep_alive,
                                 !.expects = ToLower(expect) = "100-continue",
                                 !.nparsed = @ + 1]
       IN conns' = [conns EXCEPT ![c] =
                       IF iequals(expect, "100-continue")
                       THEN [k EXCEPT !.st = "continuing"]
                       ELSE IF has_body THEN [k EXCEPT !.st = "body"]
                       ELSE start_handling(k)]
    /\ UNCHANGED <<opts, acceptor, listener, stop_requested>>
    /\ UNCHANGED <<treeVars, dispatchVars, poolVars>>

\* http::async_write of the 100 Continue response completes; the body is
\* read if the parser is not done.
ContinueDone(c, has_body) ==
    /\ conns[c].st = "continuing"
    /\ LET k == [conns[c] EXCEPT !.interim = @ + 1]
       IN conns' = [conns EXCEPT ![c] =
                       IF has_body THEN [k EXCEPT !.st = "body"]
                       ELSE start_handling(k)]
    /\ UNCHANGED <<opts, acceptor, listener, stop_requested>>
    /\ UNCHANGED <<treeVars, dispatchVars, poolVars>>

\* http::async_read completes: the body has been read.
ReadDone(c) ==
    /\ conns[c].st = "body"
    /\ conns' = [conns EXCEPT ![c] = start_handling(conns[c])]
    /\ UNCHANGED <<opts, acceptor, listener, stop_requested>>
    /\ UNCHANGED <<treeVars, dispatchVars, poolVars>>

\* http::async_read_header or http::async_read fails on a malformed request:
\* the exception leaves serve_session and ends the session.
ParseError(c) ==
    /\ conns[c].st \in {"reading", "body"}
    /\ conns' = [conns EXCEPT ![c] = close(conns[c], "parse_error")]
    /\ UNCHANGED <<opts, acceptor, listener, stop_requested>>
    /\ UNCHANGED <<treeVars, dispatchVars, poolVars>>

\* handle_request returns the response; async_write is started.
HandleDone(c) ==
    /\ conns[c].st = "handling"
    /\ conns' = [conns EXCEPT ![c].st = "writing"]
    /\ UNCHANGED <<opts, acceptor, listener, stop_requested>>
    /\ UNCHANGED <<treeVars, dispatchVars, poolVars>>

\* A loop that goes back to its top whatever the keep-alive flag.
WriteDone_always_loops(c) ==
    /\ conns[c].st = "writing"
    /\ LET k == [conns[c] EXCEPT !.wrote = "response", !.nresp = @ + 1]
       IN conns' = [conns EXCEPT ![c] = loop_top(k)]
    /\ UNCHANGED <<opts, acceptor, listener, stop_requested>>
    /\ UNCHANGED <<treeVars, dispatchVars, poolVars>>

\* async_write completes: without keep-alive the loop ends and the send
\* side is shut down, with keep-alive the loop goes back to its top.
WriteDone(c) ==
    /\ conns[c].st = "writing"
    /\ LET k == [conns[c] EXCEPT !.wrote = "response", !.nresp = @ + 1]
       IN conns' = [conns EXCEPT ![c] =
                       IF ~k.keep_alive
                       THEN close(k, "shutdown_send")
                       ELSE loop_top(k)]
    /\ UNCHANGED <<opts, acceptor, listener, stop_requested>>
    /\ UNCHANGED <<treeVars, dispatchVars, poolVars>>

\* Time passes the deadline of the stream.
Expire(c) ==
    /\ Live(c)
    /\ conns[c].timer # "never"
    /\ ~conns[c].expired
    /\ conns' = [conns EXCEPT ![c].expired = TRUE]
    /\ UNCHANGED <<opts, acceptor, listener, stop_requested>>
    /\ UNCHANGED <<treeVars, dispatchVars, poolVars>>

\* A pending read or write of a stream whose deadline has passed fails with
\* a timeout; the exception ends the session.
TimeoutClose(c) ==
    /\ conns[c].st \in {"idle", "reading", "continuing", "body", "writing"}
    /\ conns[c].expired
    /\ conns' = [conns EXCEPT ![c] = close(conns[c], "timeout")]
    /\ UNCHANGED <<opts, acceptor, listener, stop_requested>>
    /\ UNCHANGED <<treeVars, dispatchVars, poolVars>>

\* async_read_some on a connection the client has closed, with nothing left
\* to read, fails with end of file; the exception ends the session.
EofClose(c) ==
    /\ conns[c].st = "idle"
    /\ conns[c].net = 0
    /\ ~conns[c].peer_open
    /\ conns' = [conns EXCEPT ![c] = close(conns[c], "eof")]
    /\ UNCHANGED <<opts, acceptor, listener, stop_requested>>
    /\ UNCHANGED <<treeVars, dispatchVars, poolVars>>

\* The server after set_options and listen_and_serve: the acceptor is open
\* and do_listen waits in async_accept.
InitConn ==
    /\ TreeIdle
    /\ DispatchIdle
    /\ PoolIdle
    /\ opts \in Options
    /\ acceptor = "open"
    /\ listener = "pending"
    /\ stop_requested = FALSE
    /\ conns = [c \in Conns |-> NoConn]

\* The steps of one session.
SessionStep(c) ==
    \/ \E n \in 1..MaxRequests : FirstByte(c, n)
    \/ \E keep_alive \in BOOLEAN : \E expect \in ExpectValues : \E has_body \in BOOLEAN :
         HeaderDone(c, keep_alive, expect, has_body)
    \/ \E has_body \in BOOLEAN : ContinueDone(c, has_body)
    \/ ReadDone(c)
    \/ ParseError(c)
    \/ HandleDone(c)
    \/ WriteDone(c)
    \/ TimeoutClose(c)
    \/ EofClose(c)

NextConn ==
    \/ \E c \in Conns : ClientConnect(c)
    \/ AcceptError
    \/ \E c \in Conns : ListenSpawn(c)
    \/ \E c \in Conns : ListenThrow(c)
    \/ ListenAborted
    \/ ListenRetry
    \/ Stop
    \/ \E c \in Conns : ClientSend(c)
    \/ \E c \in Conns : ClientClose(c)
    \/ \E c \in Conns : SessionStep(c)
    \/ \E c \in Conns : Expire(c)

\* The reactor runs every coroutine that can resume, handlers finish and
\* time passes; nothing is assumed of the clients.
FairConn ==
    /\ WF_vars(ListenAborted)
    /\ WF_vars(ListenRetry)
    /\ \A c \in Conns :
         /\ WF_vars(ListenSpawn(c) \/ ListenThrow(c))
         /\ WF_vars(SessionStep(c))
         /\ WF_vars(Expire(c))

SpecConn == InitConn /\ [][NextConn]_vars /\ FairConn

\* A server that is not stopped and whose accepts succeed: sessions under
\* every configuration of the timeouts.
NextTimeouts ==
    \/ \E c \in Conns : ClientConnect(c)
    \/ \E c \in Conns : ListenSpawn(c)
    \/ \E c \in Conns : ClientSend(c)
    \/ \E c \in Conns : ClientClose(c)
    \/ \E c \in Conns : SessionStep(c)
    \/ \E c \in Conns : Expire(c)

SpecTimeouts == InitConn /\ [][NextTimeouts]_vars

\* The configurations under which the connection loop itself is examined:
\* the defaults (no timeout), every timeout set, and a read timeout alone.
SessionOptions ==
    { [idle_timeout |-> 0, read_timeout |-> 0, serve_timeout |-> 0],
      [idle_timeout |-> 1, read_timeout |-> 1, serve_timeout |-> 2],
      [idle_timeout |-> 0, read_timeout |-> 3, serve_timeout |-> 0] }

\* The server after set_options with one of these and listen_and_serve.
InitSession ==
    /\ TreeIdle
    /\ DispatchIdle
    /\ PoolIdle
    /\ opts \in SessionOptions
    /\ acceptor = "open"
    /\ listener = "pending"
    /\ stop_requested = FALSE
    /\ conns = [c \in Conns |-> NoConn]

SpecSession == InitSession /\ [][NextConn]_vars /\ FairConn

----------------------------------------------------------------------------
(* fawkes/io_thread_pool.hpp and server::do_listen of a server that was     *)
(* given an I/O pool.                                                      *)
(*                                                                         *)
(* Reactors are numbered from 0 as in pool_.  get_executor is two steps    *)
(* for a thread: the atomic fetch_add, then the read of pool_[idx]; other  *)
(* threads may run between the two.  The accept loop picks an executor     *)
(* before every async_accept.  next_io_executor_ is a std::size_t and      *)
(* stays far below its wrap-around within MaxCalls calls.                  *)

Callers == 1..MaxCallers

\* Saturates at the last reactor instead of wrapping.
executor_index_saturating(next, size) == IF next < size THEN next ELSE size - 1

\* The index get_executor computes from the value fetch_add returned.
executor_index(next, size) == next % size

\* A call that has not returned yet.
Pending == -1

\* next_io_executor_.fetch_add(1) % size() by thread t.
FetchAdd(t) ==
    /\ callers[t].pc = "idle"
    /\ Len(calls) < MaxCalls
    /\ next_io_executor' = next_io_executor + 1
    /\ callers' = [callers EXCEPT ![t] =
                     [pc |-> "fetched", k |-> next_io_executor,
                      idx |-> executor_index(next_io_executor, pool)]]
    /\ calls' = Append(calls, [by |-> t, reactor |-> Pending])
    /\ UNCHANGED <<pool, accepting, assigned>>
    /\ UNCHANGED <<treeVars, dispatchVars, connVars>>

\* return pool_[idx].io_ctx_ptr->get_executor() by thread t.
ReturnExecutor(t) ==
    /\ callers[t].pc = "fetched"
    /\ calls' = [calls EXCEPT ![callers[t].k + 1].reactor = callers[t].idx]
    /\ callers' = [callers EXCEPT ![t].pc = "idle"]
    /\ UNCHANGED <<pool, next_io_executor, accepting, assigned>>
    /\ UNCHANGED <<treeVars, dispatchVars, connVars>>

\* do_listen picks the executor for its next async_accept.
ListenPick ==
    /\ accepting.pc = "pick"
    /\ Len(calls) < MaxCalls
    /\ LET picked == executor_index(next_io_executor, pool)
       IN /\ accepting' = [pc |-> "accept", executor |-> picked]
          /\ calls' = Append(calls, [by |-> 0, reactor |-> picked])
    /\ next_io_executor' = next_io_executor + 1
    /\ UNCHANGED <<pool, callers, assigned>>
    /\ UNCHANGED <<treeVars, dispatchVars, connVars>>

\* async_accept(executor) completes with a socket: the socket is bound to
\* the executor and serve_session is spawned on the same executor.
AcceptSpawn ==
    /\ accepting.pc = "accept"
    /\ assigned' = Append(assigned, [sock |-> accepting.executor,
                                     session |-> accepting.executor])
    /\ accepting' = [accepting EXCEPT !.pc = "pick"]
    /\ UNCHANGED <<pool, next_io_executor, callers, calls>>
    /\ UNCHANGED <<treeVars, dispatchVars, connVars>>

\* async_accept completes with an error other than operation_aborted: the
\* loop continues with the next iteration.
AcceptFail ==
    /\ accepting.pc = "accept"
    /\ accepting' = [accepting EXCEPT !.pc = "pick"]
    /\ UNCHANGED <<pool, next_io_executor, callers, calls, assigned>>
    /\ UNCHANGED <<treeVars, dispatchVars, connVars>>

\* async_accept completes with operation_aborted: do_listen returns.
AcceptAborted ==
    /\ accepting.pc = "accept"
    /\ accepting' = [accepting EXCEPT !.pc = "exited"]
    /\ UNCHANGED <<pool, next_io_executor, callers, calls, assigned>>
    /\ UNCHANGED <<treeVars, dispatchVars, connVars>>

\* A pool of 1..MaxReactors reactors, handed to a server whose do_listen
\* has just started.
InitPool ==
    /\ TreeIdle
    /\ DispatchIdle
    /\ ConnIdle
    /\ pool \in 1..MaxReactors
    /\ next_io_executor = 0
    /\ callers = [t \in Callers |-> [pc |-> "idle", k |-> 0, idx |-> 0]]
    /\ calls = <<>>
    /\ accepting = [pc |-> "pick", executor |-> 0]
    /\ assigned = <<>>

NextPool ==
    \/ \E t \in Callers : FetchAdd(t)
    \/ \E t \in Callers : ReturnExecutor(t)
    \/ ListenPick
    \/ AcceptSpawn
    \/ AcceptFail
    \/ AcceptAborted

SpecPool == InitPool /\ [][NextPool]_vars

----------------------------------------------------------------------------
(* Reading the log of one dispatched request                               *)

Done == pc = "done"

IsPrefix(a, b) == Len(a) <= Len(b) /\ a = SubSeq(b, 1, Len(a))

Reverse(q) == [i \in 1..Len(q) |-> q[Len(q) + 1 - i]]

\* The middlewares of tuple c that define the phase, in the order in which
\* the phase is to run them: registration order for pre_handle, reverse
\* registration order for post_handle.
ExecOrder(c, phase) ==
    LET defining == SelectSeq([i \in 1..Len(c) |-> i], LAMBDA i : Defines(c[i], phase))
    IN IF phase = "pre" THEN defining ELSE Reverse(defining)

TupleOf(chain) == IF chain = "router" THEN base ELSE route.mws

\* The middleware calls of one chain and phase that the log holds.
Calls(chain, phase) ==
    SelectSeq(log, LAMBDA e : e.k = "mw" /\ e.chain = chain /\ e.phase = phase)

CalledIdx(chain, phase) ==
    LET c == Calls(chain, phase) IN [j \in 1..Len(c) |-> c[j].i]

\* The chain ran: its middlewares were called in execution order, all of
\* them unless the last call did not return proceed.
ChainRan(chain, phase) ==
    LET c == Calls(chain, phase)
        order == ExecOrder(TupleOf(chain), phase)
    IN /\ IsPrefix(CalledIdx(chain, phase), order)
       /\ \A j \in 1..(Len(c) - 1) : c[j].ret = "proceed"
       /\ \/ Len(c) = Len(order)
          \/ (c # <<>> /\ c[Len(c)].ret # "proceed")

ChainDone(chain, phase, ret) ==
    \E j \in 1..Len(log) :
        /\ log[j].k = "chain_done" /\ log[j].chain = chain
        /\ log[j].phase = phase /\ log[j].ret = ret

Occurs(k) == \E j \in 1..Len(log) : log[j].k = k

NoThrow ==
    \A j \in 1..Len(log) : log[j].ret \notin {"throw", "http_error", "exception"}

NoAbort == \A j \in 1..Len(log) : log[j].ret # "abort"

\* What ran, without what it saw.
Trace ==
    LET l == SelectSeq(log, LAMBDA e : e.k \in {"mw", "handler", "not_found", "prepare"})
    IN [j \in 1..Len(l) |-> <<l[j].k, l[j].chain, l[j].phase, l[j].i>>]

CallsOf(chain, phase) ==
    LET order == ExecOrder(TupleOf(chain), phase)
    IN [j \in 1..Len(order) |-> <<"mw", chain, phase, order[j]>>]

----------------------------------------------------------------------------
(* C3: for a request whose route is found, where no middleware aborts and  *)
(* nothing throws, what runs is exactly, once each and in this order: the  *)
(* router-wide pre_handle chain, the per-route pre_handle chain, the user  *)
(* handler, the per-route post_handle chain, the router-wide post_handle   *)
(* chain, and only then the response is prepared and returned.             *)
C3_DispatchOrder ==
    (Done /\ req.found /\ NoAbort /\ NoThrow) =>
        /\ Trace = CallsOf("router", "pre") \o CallsOf("route", "pre")
                   \o << <<"handler", "-", "-", 0>> >>
                   \o CallsOf("route", "post") \o CallsOf("router", "post")
                   \o << <<"prepare", "-", "-", 0>> >>
        /\ sent = resp

\* A request went through two router-wide and two per-route middlewares,
\* each with pre_handle and post_handle, and the handler, and was returned.
C3_Witness ==
    /\ Done /\ req.found /\ NoAbort /\ NoThrow
    /\ Len(CallsOf("router", "pre")) >= 2 /\ Len(CallsOf("router", "post")) >= 2
    /\ Len(CallsOf("route", "pre")) >= 2 /\ Len(CallsOf("route", "post")) >= 2
    /\ sent.status = "ok"

----------------------------------------------------------------------------
(* C4: when the i-th middleware in execution order (registration order for *)
(* pre_handle, reverse registration order for post_handle) returns abort,  *)
(* every middleware before it in execution order has run, none after it    *)
(* runs, and the chain reports abort; for synchronous and coroutine         *)
(* middlewares alike.                                                      *)
C4_AbortShortCircuit ==
    \A j \in 1..Len(log) :
        (log[j].k = "mw" /\ log[j].ret = "abort") =>
            LET chain == log[j].chain
                phase == log[j].phase
                order == ExecOrder(TupleOf(chain), phase)
                called == CalledIdx(chain, phase)
            IN /\ IsPrefix(called, order)
               /\ called[Len(called)] = log[j].i
               /\ j < Len(log)
               /\ log[j + 1].k = "chain_done" /\ log[j + 1].chain = chain
               /\ log[j + 1].phase = phase /\ log[j + 1].ret = "abort"
               /\ \A k \in (j + 1)..Len(log) :
                    ~(log[k].k = "mw" /\ log[k].chain = chain /\ log[k].phase = phase)

\* A coroutine middleware in the middle of three aborted post_handle: the
\* one registered after it has run, the one registered before it has not.
C4_Witness ==
    /\ Done
    /\ \E j \in 1..Len(log) :
         /\ log[j].k = "mw" /\ log[j].ret = "abort" /\ log[j].phase = "post"
         /\ log[j].chain = "router"
         /\ base[log[j].i].coro
         /\ ExecOrder(base, "post") = <<3, 2, 1>>
         /\ CalledIdx("router", "post") = <<3, 2>>

----------------------------------------------------------------------------
(* C5: if the route entry reports abort (its per-route pre_handle chain or *)
(* its per-route post_handle chain aborted), the router-wide post_handle   *)
(* chain is not run and the response is returned as the route left it.     *)
RouteAborted == ChainDone("route", "pre", "abort") \/ ChainDone("route", "post", "abort")

C5_RouteAbortSkipsRouterPost ==
    (Done /\ RouteAborted) =>
        /\ Calls("router", "post") = <<>>
        /\ ~ChainDone("router", "post", "proceed")
        /\ ~ChainDone("router", "post", "abort")
        /\ \E j \in 1..Len(log) :
             /\ log[j].k = "chain_done" /\ log[j].chain = "route" /\ log[j].ret = "abort"
             /\ sent = log[j].seen

\* The per-route post_handle chain aborted after the handler had run, with
\* router-wide middlewares that define post_handle.
C5_Witness ==
    /\ Done
    /\ ChainDone("route", "post", "abort")
    /\ Occurs("handler")
    /\ ExecOrder(base, "post") # <<>>
    /\ sent.status = "unauthorized"

----------------------------------------------------------------------------
(* C6: a router-wide middleware L defines pre_handle and post_handle, a    *)
(* per-route middleware A sets status 401 in pre_handle and returns abort. *)
AuthScenario ==
    /\ Done
    /\ req.found
    /\ Len(base) = 1 /\ base[1].pre /\ base[1].post
    /\ Len(route.mws) = 1 /\ route.mws[1].pre /\ route.mws[1].post
    /\ \E j \in 1..Len(log) :
         /\ log[j].k = "chain_done" /\ log[j].chain = "route" /\ log[j].phase = "pre"
         /\ log[j].ret = "abort" /\ log[j].seen.status = "unauthorized"

(* C6 as stated: the response status is 401, L.post_handle runs and        *)
(* observes status 401, the user handler does not run and A.post_handle    *)
(* does not run.                                                           *)
C6_AuthAbort_AsStated ==
    AuthScenario =>
        /\ sent.status = "unauthorized"
        /\ \E j \in 1..Len(log) :
             /\ log[j].k = "mw" /\ log[j].chain = "router" /\ log[j].phase = "post"
             /\ log[j].seen.status = "unauthorized"
        /\ ~Occurs("handler")
        /\ Calls("route", "post") = <<>>

(* C6, amended: the response status is 401, L.pre_handle has run,          *)
(* L.post_handle does not run, the user handler does not run and           *)
(* A.post_handle does not run.                                             *)
C6_AuthAbort ==
    AuthScenario =>
        /\ sent.status = "unauthorized"
        /\ CalledIdx("router", "pre") = <<1>>
        /\ Calls("router", "post") = <<>>
        /\ ~Occurs("handler")
        /\ Calls("route", "post") = <<>>

\* The scenario happened: L.pre_handle proceeded, A.pre_handle set 401 and
\* aborted, and the response was returned.
C6_Witness ==
    /\ AuthScenario
    /\ CalledIdx("route", "pre") = <<1>>
    /\ sent.status = "unauthorized"
    /\ ~base[1].coro /\ ~route.mws[1].coro

----------------------------------------------------------------------------
(* C7: if the router-wide pre_handle chain aborts, the response is         *)
(* returned as the aborting middleware left it, and no per-route           *)
(* middleware, no user handler, no 404 substitution and no router-wide     *)
(* post_handle runs, whether or not a route matched.                       *)
C7_RouterPreAbort ==
    (Done /\ ChainDone("router", "pre", "abort")) =>
        /\ \E j \in 1..Len(log) :
             /\ log[j].k = "chain_done" /\ log[j].chain = "router" /\ log[j].phase = "pre"
             /\ sent = log[j].seen
        /\ Calls("route", "pre") = <<>>
        /\ Calls("route", "post") = <<>>
        /\ Calls("router", "post") = <<>>
        /\ ~Occurs("handler")
        /\ ~Occurs("not_found")
        /\ sent.status # "not_found"

\* The router-wide pre_handle chain aborted with 401 for a request without
\* a matching route, with router-wide middlewares that define post_handle.
C7_Witness ==
    /\ Done
    /\ ChainDone("router", "pre", "abort")
    /\ ~req.found
    /\ ExecOrder(base, "post") # <<>>
    /\ sent.status = "unauthorized"

----------------------------------------------------------------------------
(* C8: if the user handler throws (an http_error or another                *)
(* std::exception), the error is converted into the response and the       *)
(* per-route post_handle chain still runs; unless that chain aborts, the   *)
(* router-wide post_handle chain runs too; both observe the error status.  *)
HandlerThrew ==
    \E j \in 1..Len(log) : log[j].k = "handler" /\ log[j].ret \in {"http_error", "exception"}

ErrorStatus ==
    IF \E j \in 1..Len(log) : log[j].k = "handler" /\ log[j].ret = "http_error"
    THEN "forbidden" ELSE "internal_server_error"

C8_HandlerThrowKeepsPost ==
    (Done /\ HandlerThrew) =>
        /\ ChainRan("route", "post")
        /\ ChainDone("route", "post", "proceed") => ChainRan("router", "post")
        /\ \A j \in 1..Len(log) :
             (log[j].k = "mw" /\ log[j].phase = "post") =>
                 /\ log[j].seen.status = ErrorStatus
                 /\ log[j].seen.body = "error_json"

\* The handler threw an http_error, and two per-route and two router-wide
\* post_handle ran and saw the 403.
C8_Witness ==
    /\ Done
    /\ \E j \in 1..Len(log) : log[j].k = "handler" /\ log[j].ret = "http_error"
    /\ Len(Calls("route", "post")) = 2
    /\ Len(Calls("router", "post")) >= 2
    /\ sent.status = "forbidden"

----------------------------------------------------------------------------
(* C9: if no handler matches and the router-wide pre_handle chain          *)
(* proceeds, the response is the 404 with the JSON body naming an unknown  *)
(* resource, the router-wide post_handle chain runs exactly once after the *)
(* 404 has been set, and the 404 response is returned whether that chain   *)
(* proceeds or aborts (with the status 404 unless a post_handle itself     *)
(* replaced it).                                                           *)
MwThrew == \E j \in 1..Len(log) : log[j].ret = "throw"

C9_NotFound ==
    (Done /\ ~req.found /\ ChainDone("router", "pre", "proceed") /\ ~MwThrew) =>
        \E j \in 1..Len(log) :
            /\ log[j].k = "not_found"
            /\ \A k \in 1..Len(log) : log[k].k = "not_found" => k = j
            /\ ChainRan("router", "post")
            /\ Cardinality({k \in 1..Len(log) :
                    log[k].k = "chain_done" /\ log[k].chain = "router"
                    /\ log[k].phase = "post"}) = 1
            /\ \A k \in 1..Len(log) :
                 (log[k].k = "mw" /\ log[k].phase = "post") =>
                     /\ k > j
                     /\ log[k].seen.status = "not_found"
                     /\ log[k].seen.body = "unknown_resource_json"
            /\ sent.body = "unknown_resource_json"
            /\ sent.keep_alive = req.keep_alive
            /\ \/ sent.status = "not_found"
               \/ \E k \in 1..Len(log) :
                    /\ log[k].k = "chain_done" /\ log[k].phase = "post"
                    /\ log[k].ret = "abort" /\ log[k].seen.status = "unauthorized"
            /\ (\A k \in 1..Len(log) : log[k].seen.status # "unauthorized")
                  => sent.status = "not_found"

\* A request without a route got the 404, a router-wide post_handle saw it
\* and aborted, and the 404 was returned.
C9_Witness ==
    /\ Done
    /\ ~req.found
    /\ Occurs("not_found")
    /\ ChainDone("router", "post", "abort")
    /\ Len(Calls("router", "pre")) >= 1
    /\ sent.status = "not_found"
    /\ sent.body = "unknown_resource_json"

----------------------------------------------------------------------------
(* C10: after server.stop() every live connection eventually closes: a     *)
(* connection that is writing the response of its in-flight request closes *)
(* after the write instead of waiting for another request, and a           *)
(* connection that is idle closes without reading another request; also    *)
(* with all timeouts disabled.                                             *)
AllClosed == \A c \in Conns : ~Live(c)

C10_StopClosesConnections ==
    /\ [][\A c \in Conns :
            (stop_requested /\ conns[c].st = "writing")
                => conns'[c].st \in {"writing", "closed"}]_vars
    /\ [][\A c \in Conns :
            (stop_requested /\ conns[c].st = "idle")
                => conns'[c].st \in {"idle", "closed"}]_vars
    /\ (stop_requested ~> AllClosed)

----------------------------------------------------------------------------
(* C11: after server.stop() has run, the accept loop eventually exits and  *)
(* no connection is accepted afterwards, whether the accept was pending    *)
(* when stop() ran or had already completed, so that the loop starts its   *)
(* next accept on a closed acceptor.                                       *)
C11_StopEndsAcceptLoop ==
    /\ [][stop_requested =>
            \A c \in Conns : conns[c].st = "none" => conns'[c].st = "none"]_vars
    /\ (stop_requested ~> (listener = "exited"))

----------------------------------------------------------------------------
(* Reading the steps of a connection                                       *)

\* The step ends the session of c with a timeout.
TimesOut(c) == conns[c].st # "closed" /\ conns'[c].end = "timeout"

----------------------------------------------------------------------------
(* C12: idle_timeout limits only the wait for the first byte of a request. *)
(* Once the first byte has arrived the idle deadline no longer applies,    *)
(* for every setting of read_timeout and serve_timeout: a connection that  *)
(* is reading, dispatching or answering a request is not timed out by the  *)
(* idle deadline.                                                          *)
C12_IdleDeadlineOnlyWhileIdle ==
    [][\A c \in Conns :
         (TimesOut(c) /\ conns[c].timer = "idle") => conns[c].st = "idle"]_vars

----------------------------------------------------------------------------
(* C13: read_timeout limits only the reading of one request.  When         *)
(* serve_timeout is disabled, dispatch and the response write are not      *)
(* timed out by the read deadline.                                         *)
C13_ReadDeadlineOnlyWhileReading ==
    [][\A c \in Conns :
         (opts.serve_timeout <= 0 /\ TimesOut(c) /\ conns[c].timer = "read")
             => conns[c].st \notin {"handling", "writing"}]_vars

----------------------------------------------------------------------------
(* C14: when idle_timeout is zero or negative, a connection that waits for *)
(* the first byte of its next request is never closed by a timeout,        *)
(* whatever read_timeout and serve_timeout are and however many requests   *)
(* it has served.                                                          *)
C14_NoIdleTimeoutWhenDisabled ==
    [][\A c \in Conns :
         (opts.idle_timeout <= 0 /\ conns[c].st = "idle") => ~TimesOut(c)]_vars

----------------------------------------------------------------------------
(* C15: with serve_timeout > 0, if the handler stays suspended past the    *)
(* serve deadline, the connection is closed when the deadline expires, not *)
(* when the handler finishes, and no complete response is written for that *)
(* request.                                                                *)
PastServeDeadline(c) ==
    opts.serve_timeout > 0 /\ conns[c].timer = "serve" /\ conns[c].expired

C15_ServeDeadlineClosesConnection ==
    [][\A c \in Conns :
         PastServeDeadline(c) =>
            /\ conns[c].st = "handling" => conns'[c].st \in {"handling", "closed"}
            /\ conns[c].st = "writing" => conns'[c].st \in {"writing", "closed"}
            /\ conns[c].st \in {"handling", "writing"} => conns'[c].end # "shutdown_send"]_vars

----------------------------------------------------------------------------
(* C16: for all read_timeout rt and serve_timeout st (positive, zero or    *)
(* negative), effective_read_timeout() is min(rt, st) when both are        *)
(* positive, the positive one when exactly one is positive, and 0          *)
(* otherwise; it is never negative and never exceeds a positive            *)
(* serve_timeout.  Checked on the read_timeout every session computes from *)
(* the options of its server.                                              *)
ExpectedReadTimeout(rt, st) ==
    IF rt > 0 /\ st > 0 THEN (IF rt <= st THEN rt ELSE st)
    ELSE IF rt > 0 THEN rt
    ELSE IF st > 0 THEN st
    ELSE 0

C16_EffectiveReadTimeout ==
    \A c \in Conns :
        Live(c) =>
            /\ conns[c].read_timeout
                   = ExpectedReadTimeout(opts.read_timeout, opts.serve_timeout)
            /\ conns[c].read_timeout >= 0
            /\ opts.serve_timeout > 0 => conns[c].read_timeout <= opts.serve_timeout

\* A session of a server whose read_timeout is larger than its positive
\* serve_timeout reads a request under the serve_timeout.
C16_Witness ==
    \E c \in Conns :
        /\ conns[c].st = "reading"
        /\ opts.read_timeout = 3 /\ opts.serve_timeout = 2
        /\ conns[c].read_timeout = 2
        /\ conns[c].timer = "read"

----------------------------------------------------------------------------
(* C17: when parsing of a request line or header fails, the connection     *)
(* task writes a 400 response to the client and then closes the            *)
(* connection, reading no further request from it.                         *)
C17_ParseErrorWrites400 ==
    \A c \in Conns :
        conns[c].end = "parse_error" =>
            /\ conns[c].st = "closed"
            /\ conns[c].wrote = "bad_request"

----------------------------------------------------------------------------
(* C18: a request whose target has an invalid path part is answered with   *)
(* status 400: the http_error(bad_request) raised by request construction  *)
(* determines the response status.                                         *)
C18_InvalidPathIs400 ==
    (Done /\ ~req.valid) => sent.status = "bad_request"

----------------------------------------------------------------------------
(* Route conflicts                                                         *)

\* The routes registered before the last add_route call.
RoutesBefore ==
    IF lastAdd.ok THEN SubSeq(routes, 1, Len(routes) - 1) ELSE routes

IsWildcardChar(c) == c \in {":", "*"}

\* Patterns p and q share their first i bytes and differ at the next one,
\* where p has a literal byte and q starts a wildcard.
LiteralMeetsWildcard(p, q) ==
    \E i \in 0..(Len(p) - 1) :
        /\ i < Len(q)
        /\ Take(p, i) = Take(q, i)
        /\ ~IsWildcardChar(p[i + 1])
        /\ IsWildcardChar(q[i + 1])

\* The last pattern needs a literal child where a registered route has its
\* wildcard child.
NeedsLiteralAtWildcard ==
    \E k \in 1..Len(RoutesBefore) : LiteralMeetsWildcard(lastAdd.path, RoutesBefore[k])

\* The last pattern needs a wildcard child where a registered route has a
\* literal child.
NeedsWildcardAtLiteral ==
    \E k \in 1..Len(RoutesBefore) : LiteralMeetsWildcard(RoutesBefore[k], lastAdd.path)

\* The errors thrown as std::invalid_argument.
InvalidArgument(err) == err \notin {None, "assert_abort", "assert_sizes", "out_of_range"}

ValidPattern(pattern) == add_route(NewNode, pattern, 1, "abort").ok

\* The outcome of registering second after first on an empty tree.
SecondOf(first, second) ==
    add_route(add_route(NewNode, first, 1, "abort").node, second, 2, "abort")

\* Exactly two add_route calls were made, the first one succeeded, and
\* the second pattern is valid on its own.
PairAdded ==
    /\ nadds = 2
    /\ Len(RoutesBefore) = 1
    /\ ValidPattern(lastAdd.path)

(* C20: for two individually valid patterns P and Q, registering P then Q  *)
(* on an empty tree raises an error on Q if and only if registering Q then *)
(* P on an empty tree raises an error on P.                                *)
C20_ConflictSymmetry ==
    PairAdded =>
        LET other == SecondOf(lastAdd.path, RoutesBefore[1])
        IN /\ lastAdd.ok <=> other.ok
           /\ ~lastAdd.ok => (InvalidArgument(lastAdd.err) /\ InvalidArgument(other.err))

\* A pair of different patterns that is refused in both orders, by the
\* wildcard child in one order and by the literal children in the other.
C20_Witness ==
    /\ PairAdded
    /\ lastAdd.path # RoutesBefore[1]
    /\ ~lastAdd.ok
    /\ lastAdd.err = "wildcard_conflict"
    /\ SecondOf(lastAdd.path, RoutesBefore[1]).err = "wildcard_conflicts_with_children"

----------------------------------------------------------------------------
(* Duplicate and malformed patterns                                        *)

\* The last pattern is one of the routes registered before the call.
AlreadyRegistered ==
    \E k \in 1..Len(RoutesBefore) : RoutesBefore[k] = lastAdd.path

SegmentAt(pattern, i) ==
    LET before == {j \in 1..i : pattern[j] = "/"}
        after == {j \in (i + 1)..Len(pattern) : pattern[j] = "/"}
        from == IF before = {} THEN 1 ELSE Max(before) + 1
        to == IF after = {} THEN Len(pattern) ELSE Min(after) - 1
    IN SubSeq(pattern, from, to)

WildcardCount(segment) ==
    Cardinality({j \in 1..Len(segment) : IsWildcardChar(segment[j])})

\* A segment of pattern holds more than one wildcard character.
ManyWildcards(pattern) ==
    \E i \in 1..Len(pattern) : WildcardCount(SegmentAt(pattern, i)) > 1

\* A wildcard character of pattern is followed by '/' or by nothing.
EmptyWildcardName(pattern) ==
    \E i \in 1..Len(pattern) :
        /\ IsWildcardChar(pattern[i])
        /\ (i = Len(pattern) \/ pattern[i + 1] = "/")

\* A catch-all of pattern is followed by a further segment.
CatchAllNotLast(pattern) ==
    \E i \in 1..Len(pattern) :
        /\ pattern[i] = "*"
        /\ \E j \in (i + 1)..Len(pattern) : pattern[j] = "/"

Malformed(pattern) ==
    ManyWildcards(pattern) \/ EmptyWildcardName(pattern) \/ CatchAllNotLast(pattern)

(* C22: in every tree state, add_route fails with invalid_argument for a   *)
(* pattern in which a segment holds more than one wildcard character, a    *)
(* wildcard has an empty name, or a catch-all is followed by further path  *)
(* bytes.                                                                  *)
C22_MalformedRejected ==
    (nadds > 0 /\ Malformed(lastAdd.path))
        => (~lastAdd.ok /\ InvalidArgument(lastAdd.err))

\* A wildcard without a name is refused on a tree that holds a route.
C22_Witness ==
    /\ nadds > 1
    /\ Len(RoutesBefore) > 0
    /\ EmptyWildcardName(lastAdd.path)
    /\ ~ManyWildcards(lastAdd.path)
    /\ ~CatchAllNotLast(lastAdd.path)
    /\ ~lastAdd.ok
    /\ lastAdd.err = "invalid_wildcard"

\* A catch-all of pattern is not immediately preceded by '/'.
NoSlashBeforeCatchAll(pattern) ==
    \E i \in 1..Len(pattern) :
        /\ pattern[i] = "*"
        /\ (i = 1 \/ pattern[i - 1] # "/")

(* C23: in every tree state, add_route of a pattern whose catch-all token  *)
(* is not immediately preceded by '/' is rejected with invalid_argument,   *)
(* also when the '*' is the first byte of the remaining path at the node   *)
(* being extended: the call neither ends the process in the position       *)
(* assert of insert_path nor leaves it with another exception.             *)
C23_CatchAllNeedsSlash ==
    (nadds > 0 /\ NoSlashBeforeCatchAll(lastAdd.path))
        => (~lastAdd.ok /\ InvalidArgument(lastAdd.err))

----------------------------------------------------------------------------
(* Priorities                                                              *)

\* node_test_inspector::check_priority: the number of handlers stored in
\* the subtree of n.
RECURSIVE HandlerCount(_)
HandlerCount(n) ==
    LET RECURSIVE Sum(_)
        Sum(k) == IF k = 0 THEN 0 ELSE HandlerCount(n.children[k]) + Sum(k - 1)
    IN (IF n.handler # 0 THEN 1 ELSE 0) + Sum(Len(n.children))

\* Every node of the subtree of n has the priority check_priority expects.
RECURSIVE PriorityOK(_)
PriorityOK(n) ==
    /\ n.priority = HandlerCount(n)
    /\ \A k \in 1..Len(n.children) : PriorityOK(n.children[k])

(* C24: after every sequence of successful add_route calls, each node's    *)
(* priority equals the number of handlers stored in the subtree rooted at  *)
(* that node, its own handler included.                                    *)
C24_PriorityIsHandlerCount ==
    AllAddsSucceeded => PriorityOK(tree)

\* Three routes, a literal, a param and a catch-all one, were registered
\* below a root that was split, and every priority is the handler count.
C24_Witness ==
    /\ AllAddsSucceeded
    /\ Len(routes) = 3
    /\ \E i \in Registered : find_wildcard(routes[i]).pos = npos
    /\ \E i \in Registered : \E j \in 1..Len(routes[i]) : routes[i][j] = ":"
    /\ \E i \in Registered : \E j \in 1..Len(routes[i]) : routes[i][j] = "*"
    /\ Len(tree.children) > 1
    /\ tree.priority = 3
    /\ PriorityOK(tree)

----------------------------------------------------------------------------
(* Middleware chains                                                       *)

\* The step appended an entry to the log, and Appended is that entry.
Appends == Len(log') > Len(log)

Appended == log'[Len(log) + 1]

\* The phase of the chain ran to its end with every result proceed.
RanThrough(chain, phase) ==
    /\ ChainDone(chain, phase, "proceed")
    /\ \A j \in 1..Len(log) :
         (log[j].k = "mw" /\ log[j].chain = chain /\ log[j].phase = phase)
             => log[j].ret = "proceed"

(* C25: when no middleware aborts, pre_handle of a chain has invoked the   *)
(* pre_handle of its middlewares in registration order and post_handle has *)
(* invoked their post_handle in reverse registration order, each once;     *)
(* and while a coroutine middleware is suspended the chain does nothing    *)
(* but wait for it: the next thing that happens is its completion, before  *)
(* any other middleware starts, for chains of synchronous and coroutine    *)
(* middlewares alike.                                                      *)
C25_SequentialInOrder ==
    /\ [](\A chain \in {"router", "route"} : \A phase \in {"pre", "post"} :
            RanThrough(chain, phase)
                => CalledIdx(chain, phase) = ExecOrder(TupleOf(chain), phase))
    /\ [][(InChain /\ susp) =>
            /\ Appends
            /\ Appended.k = "mw"
            /\ Appended.chain = ChainName(pc)
            /\ Appended.phase = PhaseOf(pc)
            /\ Appended.i = idx]_vars

\* A router-wide chain of three middlewares, synchronous and coroutine
\* ones, ran pre_handle as 1, 2, 3 and post_handle as 3, 2, 1.
C25_Witness ==
    /\ Done /\ NoAbort /\ NoThrow
    /\ Len(base) = 3
    /\ \A i \in 1..3 : base[i].pre /\ base[i].post
    /\ base[1].coro /\ ~base[2].coro /\ base[3].coro
    /\ CalledIdx("router", "pre") = <<1, 2, 3>>
    /\ CalledIdx("router", "post") = <<3, 2, 1>>

\* The log holds the end of the phase of the chain.
ChainEnded(chain, phase) ==
    ChainDone(chain, phase, "proceed") \/ ChainDone(chain, phase, "abort")

(* C26: a middleware that does not define a phase is skipped in that       *)
(* phase: it is not called, nothing changes, and the walk goes on to the   *)
(* next middleware, so that the middlewares after it still run; a chain in *)
(* which no middleware defines the phase, and an empty chain, return       *)
(* proceed and leave request and response as they were.                    *)
C26_MissingPhaseSkipped ==
    /\ [](\A chain \in {"router", "route"} : \A phase \in {"pre", "post"} :
            ChainEnded(chain, phase) =>
                /\ ChainRan(chain, phase)
                /\ \A j \in 1..Len(CalledIdx(chain, phase)) :
                     Defines(TupleOf(chain)[CalledIdx(chain, phase)[j]], phase)
                /\ ExecOrder(TupleOf(chain), phase) = <<>>
                     => ChainDone(chain, phase, "proceed"))
    /\ [][(InChain /\ ~Defines(ChainOf(pc)[idx], PhaseOf(pc))) =>
            /\ idx' = NextIdx(idx, PhaseOf(pc))
            /\ UNCHANGED <<pc, req, resp, log, sent>>]_vars
    /\ [][(pc \in ChainPcs /\ ExecOrder(ChainOf(pc), PhaseOf(pc)) = <<>>) =>
            /\ req' = req
            /\ resp' = resp
            /\ pc' # pc =>
                 /\ pc' = After(pc, "proceed")
                 /\ Appends
                 /\ Appended = Event("chain_done", ChainName(pc), PhaseOf(pc),
                                     0, resp, "proceed")]_vars

\* The second of three router-wide middlewares has no pre_handle and the
\* first and the third were called; the route has no middleware and both
\* its phases returned proceed.
C26_Witness ==
    /\ Done /\ NoThrow
    /\ Len(base) = 3
    /\ base[1].pre /\ ~base[2].pre /\ base[3].pre
    /\ CalledIdx("router", "pre") = <<1, 3>>
    /\ route.present /\ route.mws = <<>>
    /\ ChainDone("route", "pre", "proceed")
    /\ ChainDone("route", "post", "proceed")

----------------------------------------------------------------------------
(* The connection loop                                                     *)

\* The interim responses a request is to get before its body is read.
InterimDue(c) == IF conns[c].expects THEN 1 ELSE 0

(* C27: for a request whose header carries Expect: 100-continue, in        *)
(* whatever case, the server writes exactly one 100 Continue response      *)
(* after the header has been parsed and before the read of the body is     *)
(* started, and the final response after it; for a request without that    *)
(* header it writes no interim response.                                   *)
C27_ExpectContinue ==
    /\ [](\A c \in Conns :
            /\ conns[c].interim <= InterimDue(c)
            /\ conns[c].st \in {"body", "handling", "writing"}
                 => conns[c].interim = InterimDue(c)
            /\ conns[c].st = "continuing" => conns[c].expects)
    /\ [][\A c \in Conns :
            /\ conns'[c].interim > conns[c].interim
                 => /\ conns[c].st = "continuing"
                    /\ conns[c].nparsed = conns[c].nresp + 1
            /\ conns'[c].nresp > conns[c].nresp
                 => conns[c].interim = InterimDue(c)]_vars

\* The final response to a request with Expect: 100-continue is being
\* written, one interim response having been written before.
C27_Witness ==
    \E c \in Conns :
        /\ conns[c].st = "writing"
        /\ conns[c].expects
        /\ conns[c].interim = 1
        /\ conns[c].nparsed = 2

\* The step completes the write of the final response on connection c.
ResponseWritten(c) ==
    /\ conns[c].st = "writing"
    /\ \/ conns'[c].nresp > conns[c].nresp
       \/ (conns[c].wrote = "none" /\ conns'[c].wrote = "response")

(* C28: when a response has been written and its keep-alive flag is false, *)
(* the connection loop ends, the write half of the socket is shut down and *)
(* no further request is read on that connection; when the flag is true,   *)
(* the connection goes back to waiting for the next request, with a fresh  *)
(* parser.                                                                 *)
C28_KeepAliveDecides ==
    /\ [][\A c \in Conns :
            ResponseWritten(c) =>
                IF conns[c].keep_alive
                THEN /\ conns'[c].st = "idle"
                     /\ conns'[c].interim = 0
                     /\ ~conns'[c].expects
                     /\ conns'[c].nparsed = conns'[c].nresp
                ELSE /\ conns'[c].st = "closed"
                     /\ conns'[c].end = "shutdown_send"]_vars
    /\ [][\A c \in Conns :
            conns[c].st = "closed" => conns'[c] = conns[c]]_vars

\* A connection whose first response was written with keep-alive waits
\* for its next request, which the client has already sent.
C28_Witness ==
    \E c \in Conns :
        /\ conns[c].st = "idle"
        /\ conns[c].keep_alive
        /\ conns[c].nresp = 1
        /\ conns[c].net = 1

\* The header of a request has been parsed and its response has not been
\* completely written.
InFlight(c) == conns[c].st \in {"continuing", "body", "handling", "writing"}

(* C29: on one connection at most one request is parsed, dispatched or     *)
(* answered at any time: the header of the next request is parsed only     *)
(* when the responses to all requests parsed before have been completely   *)
(* written, and each response written is the one to the request parsed     *)
(* last, so that responses go out in the order of their requests.          *)
C29_RequestsSerialized ==
    /\ [](\A c \in Conns :
            Live(c) =>
                /\ conns[c].nparsed = conns[c].nresp + (IF InFlight(c) THEN 1 ELSE 0)
                /\ conns[c].nresp + conns[c].buf + conns[c].net
                       + (IF conns[c].st \in {"handling", "writing"} THEN 1 ELSE 0)
                       = conns[c].nsent)
    /\ [][\A c \in Conns :
            (Live(c) /\ conns'[c].st # "closed") =>
                /\ conns'[c].nparsed > conns[c].nparsed
                     => /\ conns[c].nparsed = conns[c].nresp
                        /\ conns'[c].nparsed = conns[c].nparsed + 1
                /\ conns'[c].nresp > conns[c].nresp
                     => /\ conns'[c].nresp = conns[c].nresp + 1
                        /\ conns'[c].nresp = conns[c].nparsed]_vars

\* The response to the second request of a connection is being written,
\* the first one having been answered.
C29_Witness ==
    \E c \in Conns :
        /\ conns[c].st = "writing"
        /\ conns[c].nparsed = 2
        /\ conns[c].nresp = 1

----------------------------------------------------------------------------
(* C30: while the acceptor is open the accept loop keeps accepting: no     *)
(* failure tied to a single connection (an accept error other than         *)
(* operation_aborted, a failure to obtain the peer endpoint of an accepted *)
(* socket, an error inside a session) ends the accept loop; the loop has   *)
(* ended only if the acceptor is closed.                                   *)
C30_AcceptLoopSurvives ==
    acceptor = "open" => listener # "exited"


----------------------------------------------------------------------------
(* The I/O pool                                                            *)

Returned(k) == calls[k + 1].reactor # Pending

\* C31: for a pool of N reactors, the k-th call to get_executor (k counted
\* from 0 in the order of the atomic increments, over all calling threads,
\* concurrent calls included) returns the executor of reactor k mod N: any
\* N consecutive calls return N distinct reactors and call N+k returns the
\* same reactor as call k.
C31_RoundRobin ==
    \A k \in 0..(Len(calls) - 1) :
        Returned(k) =>
            /\ calls[k + 1].reactor = k % pool
            /\ \A j \in 0..(Len(calls) - 1) :
                 Returned(j) =>
                    /\ (k < j /\ j < k + pool)
                          => calls[j + 1].reactor # calls[k + 1].reactor
                    /\ j = k + pool
                          => calls[j + 1].reactor = calls[k + 1].reactor

\* More calls than reactors have returned, made by different threads, and
\* one thread is between its increment and its return.
C31_Witness ==
    /\ pool > 1
    /\ \E k \in 0..(Len(calls) - 1) :
          /\ Returned(k)
          /\ k >= pool
          /\ \A j \in 0..k : Returned(j)
          /\ \E j \in 0..k : calls[j + 1].by # calls[k + 1].by
    /\ \E t \in Callers : callers[t].pc = "fetched"

OnlyAcceptLoopCalls == \A k \in 1..Len(calls) : calls[k].by = 0

\* C32: with an I/O pool of N reactors whose get_executor is called by the
\* accept loop only, successive accepted connections are assigned to
\* successive reactors: the connection accepted after one that was assigned
\* reactor i is assigned reactor (i+1) mod N, whatever accept attempts
\* failed in between; the socket and the session of a connection run on
\* the reactor assigned to it.
C32_AcceptedRoundRobin ==
    OnlyAcceptLoopCalls =>
        /\ \A i \in 1..Len(assigned) : assigned[i].session = assigned[i].sock
        /\ \A i \in 1..(Len(assigned) - 1) :
              assigned[i + 1].sock = (assigned[i].sock + 1) % pool


----------------------------------------------------------------------------
(* Captured parameters                                                     *)

\* The bytes of buf in the range [off, off + len).
Slice(buf, off, len) == SubSeq(buf, off + 1, off + len)

\* Every capture of a lookup is the range of buf it claims to be.
CapturesLieIn(buf, res) ==
    \A i \in 1..Len(res.ps) :
        LET c == res.ps[i]
        IN /\ 0 <= c.off
           /\ c.off + Len(c.value) <= Len(buf)
           /\ c.value = Slice(buf, c.off, Len(c.value))

\* C33 as stated: every captured path-parameter value is a contiguous range
\* of bytes of the request's target: it starts and ends at valid offsets of
\* the target and equals the bytes found there.
C33_ParamsInTarget_AsStated ==
    lookup.routed =>
        \A t \in Targets : CapturesLieIn(t, lookup.reqs[t].res)

\* C33, amended: every captured path-parameter value is a contiguous range
\* of bytes of the request's percent-decoded path (request::path_, which
\* the request owns): it starts and ends at valid offsets of that string
\* and equals the bytes found there.
C33_ParamsInPath ==
    lookup.routed =>
        \A t \in Targets : CapturesLieIn(lookup.reqs[t].path, lookup.reqs[t].res)

\* A target with a percent-escape was routed to a handler with a non-empty
\* capture, and a target was routed with two captures.
C33_Witness ==
    /\ lookup.routed
    /\ \E t \in Targets :
          /\ lookup.reqs[t].path # t
          /\ lookup.reqs[t].res.found
          /\ \E i \in 1..Len(lookup.reqs[t].res.ps) :
                lookup.reqs[t].res.ps[i].value # <<>>
    /\ \E t \in Targets : Len(lookup.reqs[t].res.ps) = 2


----------------------------------------------------------------------------
(* Rejected registrations                                                  *)

\* The tree that the first k successful registrations alone build.
RECURSIVE Rebuilt(_)
Rebuilt(k) ==
    IF k = 0 THEN NewNode
    ELSE add_route(Rebuilt(k - 1), routes[k], k, "abort").node

SameLookups(t1, t2) ==
    \A p \in Paths : locate(t1, p, 0, <<>>) = locate(t2, p, 0, <<>>)

SameAdds(t1, t2) ==
    \A q \in Patterns :
        add_route(t1, q, Len(routes) + 1, "abort").ok
            = add_route(t2, q, Len(routes) + 1, "abort").ok

SomeAddThrew == nadds > Len(routes) /\ Alive

\* C34: an add_route call that throws leaves the tree equivalent to its
\* state before the call: after any calls of which some threw, every locate
\* returns the handler and the captures it returns on the tree built by the
\* successful calls alone, and every further add_route succeeds or fails as
\* it does on that tree.
C34_RejectedAddLeavesTree ==
    SomeAddThrew =>
        /\ SameLookups(tree, Rebuilt(Len(routes)))
        /\ SameAdds(tree, Rebuilt(Len(routes)))


----------------------------------------------------------------------------
(* Pipelined requests                                                      *)

TimeoutsOff ==
    /\ opts.idle_timeout <= 0
    /\ opts.read_timeout <= 0
    /\ opts.serve_timeout <= 0

\* The number of requests session c has read from its socket.
Received(c) == conns[c].nsent - conns[c].net

\* C35: with all timeouts disabled, every complete request whose bytes the
\* session has received is eventually dispatched and answered, unless the
\* session ends before (the response to an earlier request was not
\* keep-alive, the client closed, a request was malformed); this includes a
\* request that arrived in the same read as the request before it and is in
\* the buffer of the connection when the loop starts its next iteration.
C35_ReceivedIsAnswered ==
    \A c \in Conns : \A k \in 1..MaxRequests :
        (TimeoutsOff /\ Live(c) /\ Received(c) >= k)
            ~> (conns[c].nresp >= k \/ conns[c].st = "closed")


----------------------------------------------------------------------------
(* Replacing the router-wide middlewares                                   *)

\* C36: after router.use has been called more than once, the router-wide
\* chain consists of exactly the middlewares of the last call: pre_impl_
\* and post_impl_ are empty or refer to the tuple of the last call, also
\* when the middlewares of the last call define only one of the two
\* phases, and no pre_handle or post_handle of the chain calls into the
\* tuple of an earlier call.
C36_LastUseWins ==
    impls.gen > 1 =>
        /\ impls.pre \in {0, impls.gen}
        /\ impls.post \in {0, impls.gen}
        /\ \A j \in 1..Len(log) : log[j].k # "stale"


----------------------------------------------------------------------------
(* A middleware that throws                                                *)

Threw(j) == log[j].k = "mw" /\ log[j].ret = "throw"

\* C37: if a middleware (router-wide or per-route, in pre_handle or in
\* post_handle) throws a std::exception, nothing runs after it for that
\* request: no further middleware, no user handler, no 404 substitution;
\* and the request is answered with the 500 JSON response that carries the
\* keep-alive flag of the request, which is not prepared from the response
\* under construction.
C37_MiddlewareThrowIs500 ==
    \A j \in 1..Len(log) :
        Threw(j) =>
            /\ j = Len(log)
            /\ pc = "done"
            /\ ~susp
            /\ sent.status = "internal_server_error"
            /\ sent.body = "what_json"
            /\ sent.keep_alive = req.keep_alive

\* A per-route post_handle threw after the user handler had run, for a
\* keep-alive request.
C37_Witness ==
    /\ Done
    /\ req.keep_alive
    /\ \E j \in 1..Len(log) :
          /\ Threw(j)
          /\ log[j].chain = "route"
          /\ log[j].phase = "post"
          /\ \E h \in 1..(j - 1) : log[h].k = "handler"


----------------------------------------------------------------------------
(* The shape of the tree                                                   *)

\* The node n and every node below it.
RECURSIVE Nodes(_)
Nodes(n) == {n} \cup UNION {Nodes(n.children[i]) : i \in 1..Len(n.children)}

ParamNodeOK(n) ==
    n.type = "param" => (Len(n.children) <= 1 /\ n.indices = <<>>)

\* C38: in every tree built by successful add_route calls, each node of
\* kind param has at most one child and an empty indices string, also a
\* param node that was first registered as a leaf and later extended by a
\* longer pattern.
C38_ParamNodeShape ==
    AllAddsSucceeded => \A n \in Nodes(tree) : ParamNodeOK(n)

\* locate and insert_route choose the child of such a node by looking the
\* next byte up in indices: the node has no wildcard child, and it is not a
\* param node whose only child was built without an index.
IndexedNode(n) ==
    /\ ~n.has_wild_child
    /\ n.type = "param" => n.indices # <<>>

\* indices[i] is the first byte of the path of children[i].
FirstByteIndexed(n, i) ==
    /\ n.children[i].path # <<>>
    /\ n.indices[i] = n.children[i].path[1]

\* The first of the two nodes insert_path builds for a catch-all.
CatchAllHead(c) == c.type = "catch_all" /\ c.path = <<>>

\* children[i] has an empty path and is indexed by the '/' before the '*'
\* of a catch-all: it is the head node of the catch-all, or the node
\* insert_path emptied before hanging the head node below it.
CatchAllIndexed(n, i) ==
    LET c == n.children[i]
    IN /\ c.path = <<>>
       /\ n.indices[i] = "/"
       /\ \/ CatchAllHead(c)
          \/ /\ c.indices = <<"/">>
             /\ Len(c.children) = 1
             /\ CatchAllHead(c.children[1])

\* No call of increment_child_priority found indices and children of
\* different lengths.
SizesAsserted == lastAdd.err # "assert_sizes"

Wild(c) == c.type \in {"param", "catch_all"}

HasParamChild(n) == \E k \in 1..Len(n.children) : n.children[k].type = "param"

HasWildChild(n) == \E k \in 1..Len(n.children) : Wild(n.children[k])

====
